---- MODULE Spec2Model ----
(***************************************************************************)
(* A model of the code indexer (code_indexer.py), the Jenkins tool         *)
(* (jenkins_tool.py) and their callers.  Python str values are sequences   *)
(* of one-character strings, so that lower(), strip(), "in", startswith(), *)
(* split() and slicing are computed character by character.                *)
(***************************************************************************)
EXTENDS Integers, Sequences, FiniteSets, TLC

\* ------------------------------------------------------------------------
\* Bounds of the model.
\* ------------------------------------------------------------------------
\* Largest number of words in an operation text handed to the router.
MaxWords == 2
\* Console logs have every length within MaxDelta of the truncation limit.
MaxDelta == 1
\* Length of the long console log, well over the truncation limit.
BigLogLen == 3000

\* ------------------------------------------------------------------------
\* Python str operations.
\* ------------------------------------------------------------------------
SetMin(S) == CHOOSE x \in S : \A y \in S : x <= y

SetMax(S) == CHOOSE x \in S : \A y \in S : x >= y

UPPER == <<"A","B","C","D","E","F","G","H","I","J","K","L","M","N","O","P","Q","R","S","T","U","V","W","X","Y","Z">>

LOWER == <<"a","b","c","d","e","f","g","h","i","j","k","l","m","n","o","p","q","r","s","t","u","v","w","x","y","z">>

WHITESPACE == {" ", "\n", "\t", "\r"}

DIGITS == <<"0","1","2","3","4","5","6","7","8","9">>

lower_char(c) ==
  IF \E i \in 1..26 : UPPER[i] = c
  THEN LOWER[CHOOSE i \in 1..26 : UPPER[i] = c]
  ELSE c

\* s.lower()
str_lower(s) == IF s = <<>> THEN <<>> ELSE [i \in 1..Len(s) |-> lower_char(s[i])]

\* s.strip()
str_strip(s) ==
  LET keep == {i \in 1..Len(s) : s[i] \notin WHITESPACE}
  IN IF keep = {} THEN <<>> ELSE SubSeq(s, SetMin(keep), SetMax(keep))

\* p occurs in s at 0-based offset k
occurs_at(p, s, k) ==
  /\ k >= 0
  /\ k + Len(p) <= Len(s)
  /\ \A j \in 1..Len(p) : s[k + j] = p[j]

\* p in s
str_in(p, s) == \E k \in 0..(Len(s) - Len(p)) : occurs_at(p, s, k)

\* s.startswith(p)
str_startswith(s, p) == occurs_at(p, s, 0)

\* s.endswith(p)
str_endswith(s, p) == occurs_at(p, s, Len(s) - Len(p))

\* s[:n]
str_prefix(s, n) == IF Len(s) <= n THEN s ELSE SubSeq(s, 1, n)

\* s.split(sep)[1], for a non-empty sep that occurs in s: the text between the
\* end of the first occurrence of sep and the start of the next one (or the
\* end of s).
split_second(s, sep) ==
  LET first == SetMin({k \in 0..(Len(s) - Len(sep)) : occurs_at(sep, s, k)})
      from  == first + Len(sep)
      later == {k \in from..(Len(s) - Len(sep)) : occurs_at(sep, s, k)}
  IN SubSeq(s, from + 1, IF later = {} THEN Len(s) ELSE SetMin(later))

\* s.split("\n", 1) has a second element
has_newline(s) == \E i \in 1..Len(s) : s[i] = "\n"

\* s.split("\n", 1)[1], when s has a newline
after_first_newline(s) ==
  LET nl == SetMin({i \in 1..Len(s) : s[i] = "\n"})
  IN SubSeq(s, nl + 1, Len(s))

\* str(n) of a natural number
RECURSIVE str_int(_)
str_int(n) ==
  IF n < 10 THEN <<DIGITS[n + 1]>>
  ELSE str_int(n \div 10) \o <<DIGITS[(n % 10) + 1]>>

\* ", ".join(list)
RECURSIVE str_join(_)
str_join(list) ==
  IF list = <<>> THEN <<>>
  ELSE IF Len(list) = 1 THEN list[1]
  ELSE list[1] \o <<","," ">> \o str_join(Tail(list))

\* n copies of the character c
Pad(c, n) == IF n <= 0 THEN <<>> ELSE [i \in 1..n |-> c]

\* ------------------------------------------------------------------------
\* State.
\* ------------------------------------------------------------------------
VARIABLES
  \* jenkins_tool.py module globals, read from the environment at import.
  \* An unset variable (None) is {}, a set one is {value}.
  JENKINS_USERNAME,
  JENKINS_API_TOKEN,
  \* whether the installed requests library has requests.utils.b64encode
  b64encode_defined,
  \* iteration order of a set of category names in this process (str hashes
  \* are seeded per process)
  hash_order,
  \* the job name bound by get_jenkins_tool(job_name)
  job_name,
  \* position of the jenkins_operations call: "idle", "routed" (the router
  \* has normalised the text and chosen its branch), "calling" (the chosen
  \* function runs), "returned"
  ci_pc,
  \* the argument of jenkins_operations and its local after line 158
  operation_arg,
  operation,
  \* the branch of the if/elif chain that was taken
  branch,
  \* what the server did with the request of this call (if one was made)
  http,
  \* what jenkins_operations gave its caller
  ci_result

ci_vars == <<JENKINS_USERNAME, JENKINS_API_TOKEN, b64encode_defined, hash_order,
             job_name, ci_pc, operation_arg, operation, branch, http, ci_result>>

\* ------------------------------------------------------------------------
\* jenkins_tool.py
\* ------------------------------------------------------------------------
JENKINS_BASE_URL == <<"h","t","t","p",":","/","/","l","o","c","a","l","h","o","s","t",":","8","0","8","0">>

\* Python truthiness of an os.getenv value
Truthy(v) == v # {} /\ \A x \in v : x # <<>>

\* a guard that forgets the token
all_credentials_username_only(user, token) == Truthy(user)

\* all([JENKINS_USERNAME, JENKINS_API_TOKEN])
all_credentials(user, token) == Truthy(user) /\ Truthy(token)

\* A function's outcome: the text it returns or the exception it raises,
\* and the HTTP requests it sent.
Returned(text, net) == [raised |-> FALSE, exc |-> "", text |-> text, net |-> net]

Raised(exc, net) == [raised |-> TRUE, exc |-> exc, text |-> <<>>, net |-> net]

Request(method, url) == [method |-> method, url |-> url]

NoResult == Returned(<<>>, <<>>)

\* The server's side of one request: requests.get/post raises (exc, with
\* message msg) or gives a response with status_code, text and, for .json(),
\* a body that parses (json_ok) to an object that may have "result" and
\* "number".
Response(code, text) ==
  [exc |-> FALSE, msg |-> <<>>, status_code |-> code, text |-> text,
   json_ok |-> FALSE, has_result |-> FALSE, result_null |-> FALSE,
   result |-> <<>>, number |-> {}]

JsonResponse(code, has_result, result_null, result, number) ==
  [exc |-> FALSE, msg |-> <<>>, status_code |-> code, text |-> <<>>,
   json_ok |-> TRUE, has_result |-> has_result, result_null |-> result_null,
   result |-> result, number |-> number]

RequestException(msg) ==
  [exc |-> TRUE, msg |-> msg, status_code |-> 0, text |-> <<>>,
   json_ok |-> FALSE, has_result |-> FALSE, result_null |-> FALSE,
   result |-> <<>>, number |-> {}]

NoHttp == RequestException(<<>>)

\* truncation limit of get_build_logs
LogLimit == 2000

TruncationMarker == <<"\n",".",".","."," ","(","t","r","u","n","c","a","t","e","d",")">>

create_jenkins_job(user, token, b64, job, h) ==
  LET job_url == JENKINS_BASE_URL \o <<"/","c","r","e","a","t","e","I","t","e","m","?","n","a","m","e","=">> \o job
      net == <<Request("POST", job_url)>>
  IN IF ~all_credentials(user, token)
     THEN Returned(<<"J","e","n","k","i","n","s"," ","c","r","e","d","e","n","t","i","a","l","s"," ","n","o","t"," ","c","o","n","f","i","g","u","r","e","d","."," ","P","l","e","a","s","e"," ","s","e","t"," ","J","E","N","K","I","N","S","_","U","S","E","R","N","A","M","E"," ","a","n","d"," ","J","E","N","K","I","N","S","_","A","P","I","_","T","O","K","E","N",".">>, <<>>)
     \* the headers are built before the try block: requests.utils.b64encode
     ELSE IF ~b64 THEN Raised("AttributeError", <<>>)
     ELSE IF h.exc
     THEN Returned(<<"E","r","r","o","r"," ","c","r","e","a","t","i","n","g"," ","j","o","b"," ","'">> \o job \o <<"'",":"," ">> \o h.msg, net)
     ELSE IF h.status_code = 200
     THEN Returned(<<"J","e","n","k","i","n","s"," ","j","o","b"," ","'">> \o job \o <<"'"," ","c","r","e","a","t","e","d"," ","s","u","c","c","e","s","s","f","u","l","l","y",".">>, net)
     ELSE IF h.status_code = 400
     THEN Returned(<<"I","n","v","a","l","i","d"," ","j","o","b"," ","c","o","n","f","i","g","u","r","a","t","i","o","n"," ","f","o","r"," ","'">> \o job \o <<"'",".">>, net)
     ELSE Returned(<<"F","a","i","l","e","d"," ","t","o"," ","c","r","e","a","t","e"," ","j","o","b"," ","'">> \o job \o <<"'","."," ","S","t","a","t","u","s",":"," ">>
                   \o str_int(h.status_code), net)

\* trigger_jenkins_job taking 200 for a success as well as 201
trigger_jenkins_job_200_or_201(user, token, job, h) ==
  LET job_url == JENKINS_BASE_URL \o <<"/","j","o","b","/">> \o job \o <<"/","b","u","i","l","d">>
      net == <<[method |-> "POST", url |-> job_url]>>
  IN IF ~(Truthy(user) /\ Truthy(token))
     THEN [raised |-> FALSE, exc |-> "", net |-> <<>>,
           text |-> <<"J","e","n","k","i","n","s"," ","c","r","e","d","e","n","t","i","a","l","s"," ","n","o","t"," ","c","o","n","f","i","g","u","r","e","d","."," ","P","l","e","a","s","e"," ","s","e","t"," ","J","E","N","K","I","N","S","_","U","S","E","R","N","A","M","E"," ","a","n","d"," ","J","E","N","K","I","N","S","_","A","P","I","_","T","O","K","E","N",".">>]
     ELSE [raised |-> FALSE, exc |-> "", net |-> net, text |->
       IF h.exc THEN <<"E","r","r","o","r"," ","t","r","i","g","g","e","r","i","n","g"," ","j","o","b"," ","'">> \o job \o <<"'",":"," ">> \o h.msg
       ELSE IF h.status_code \in {200, 201}
       THEN <<"J","e","n","k","i","n","s"," ","j","o","b"," ","'">> \o job \o <<"'"," ","t","r","i","g","g","e","r","e","d"," ","s","u","c","c","e","s","s","f","u","l","l","y",".">>
       ELSE IF h.status_code = 403
       THEN <<"P","e","r","m","i","s","s","i","o","n"," ","d","e","n","i","e","d","."," ","C","h","e","c","k"," ","y","o","u","r"," ","J","e","n","k","i","n","s"," ","c","r","e","d","e","n","t","i","a","l","s"," ","a","n","d"," ","t","o","k","e","n",".">>
       ELSE IF h.status_code = 404
       THEN <<"J","o","b"," ","'">> \o job \o <<"'"," ","n","o","t"," ","f","o","u","n","d"," ","o","n"," ","J","e","n","k","i","n","s"," ","s","e","r","v","e","r",".">>
       ELSE <<"F","a","i","l","e","d"," ","t","o"," ","t","r","i","g","g","e","r"," ","J","e","n","k","i","n","s"," ","j","o","b"," ","'">> \o job \o <<"'","."," ","S","t","a","t","u","s"," ","c","o","d","e",":"," ">>
            \o str_int(h.status_code)]

trigger_jenkins_job(user, token, job, h) ==
  LET job_url == JENKINS_BASE_URL \o <<"/","j","o","b","/">> \o job \o <<"/","b","u","i","l","d">>
      net == <<Request("POST", job_url)>>
  IN IF ~all_credentials(user, token)
     THEN Returned(<<"J","e","n","k","i","n","s"," ","c","r","e","d","e","n","t","i","a","l","s"," ","n","o","t"," ","c","o","n","f","i","g","u","r","e","d","."," ","P","l","e","a","s","e"," ","s","e","t"," ","J","E","N","K","I","N","S","_","U","S","E","R","N","A","M","E"," ","a","n","d"," ","J","E","N","K","I","N","S","_","A","P","I","_","T","O","K","E","N",".">>, <<>>)
     ELSE IF h.exc
     THEN Returned(<<"E","r","r","o","r"," ","t","r","i","g","g","e","r","i","n","g"," ","j","o","b"," ","'">> \o job \o <<"'",":"," ">> \o h.msg, net)
     ELSE IF h.status_code = 201
     THEN Returned(<<"J","e","n","k","i","n","s"," ","j","o","b"," ","'">> \o job \o <<"'"," ","t","r","i","g","g","e","r","e","d"," ","s","u","c","c","e","s","s","f","u","l","l","y",".">>, net)
     ELSE IF h.status_code = 403
     THEN Returned(<<"P","e","r","m","i","s","s","i","o","n"," ","d","e","n","i","e","d","."," ","C","h","e","c","k"," ","y","o","u","r"," ","J","e","n","k","i","n","s"," ","c","r","e","d","e","n","t","i","a","l","s"," ","a","n","d"," ","t","o","k","e","n",".">>, net)
     ELSE IF h.status_code = 404
     THEN Returned(<<"J","o","b"," ","'">> \o job \o <<"'"," ","n","o","t"," ","f","o","u","n","d"," ","o","n"," ","J","e","n","k","i","n","s"," ","s","e","r","v","e","r",".">>, net)
     ELSE Returned(<<"F","a","i","l","e","d"," ","t","o"," ","t","r","i","g","g","e","r"," ","J","e","n","k","i","n","s"," ","j","o","b"," ","'">> \o job \o <<"'","."," ","S","t","a","t","u","s"," ","c","o","d","e",":"," ">>
                   \o str_int(h.status_code), net)

get_job_status(user, token, job, h) ==
  LET job_url == JENKINS_BASE_URL \o <<"/","j","o","b","/">> \o job \o <<"/","l","a","s","t","B","u","i","l","d","/","a","p","i","/","j","s","o","n">>
      net == <<Request("GET", job_url)>>
      result == IF ~h.has_result THEN <<"I","N","_","P","R","O","G","R","E","S","S">>
                ELSE IF h.result_null THEN <<"N","o","n","e">> ELSE h.result
      number == IF h.number = {} THEN <<"N","/","A">>
                ELSE str_int(CHOOSE n \in h.number : TRUE)
  IN IF ~all_credentials(user, token)
     THEN Returned(<<"J","e","n","k","i","n","s"," ","c","r","e","d","e","n","t","i","a","l","s"," ","n","o","t"," ","c","o","n","f","i","g","u","r","e","d",".">>, <<>>)
     ELSE IF h.exc
     THEN Returned(<<"E","r","r","o","r"," ","g","e","t","t","i","n","g"," ","j","o","b"," ","s","t","a","t","u","s",":"," ">> \o h.msg, net)
     ELSE IF h.status_code = 200
     THEN IF ~h.json_ok
          \* response.json() raises inside the try block
          THEN Returned(<<"E","r","r","o","r"," ","g","e","t","t","i","n","g"," ","j","o","b"," ","s","t","a","t","u","s",":"," ">> \o <<"E","x","p","e","c","t","i","n","g"," ","v","a","l","u","e">>, net)
          ELSE Returned(<<"J","o","b"," ","'">> \o job \o <<"'"," ","b","u","i","l","d"," ","#">> \o number \o <<":"," ">> \o result, net)
     ELSE IF h.status_code = 404
     THEN Returned(<<"J","o","b"," ","'">> \o job \o <<"'"," ","n","o","t"," ","f","o","u","n","d"," ","o","r"," ","n","o"," ","b","u","i","l","d","s"," ","e","x","i","s","t",".">>, net)
     ELSE Returned(<<"F","a","i","l","e","d"," ","t","o"," ","g","e","t"," ","j","o","b"," ","s","t","a","t","u","s","."," ","S","t","a","t","u","s"," ","c","o","d","e",":"," ">> \o str_int(h.status_code), net)

\* a truncation that also cuts a log of exactly the limit
truncate_logs_at_limit(logs) ==
  IF Len(logs) >= LogLimit THEN str_prefix(logs, LogLimit) \o TruncationMarker ELSE logs

\* logs[:2000] + "\n... (truncated)" when len(logs) > 2000
truncate_logs(logs) ==
  IF Len(logs) > LogLimit THEN str_prefix(logs, LogLimit) \o TruncationMarker ELSE logs

\* build_number is {} for None
get_build_logs(user, token, job, build_number, h) ==
  LET build_url ==
        IF build_number = {}
        THEN JENKINS_BASE_URL \o <<"/","j","o","b","/">> \o job \o <<"/","l","a","s","t","B","u","i","l","d","/","c","o","n","s","o","l","e","T","e","x","t">>
        ELSE JENKINS_BASE_URL \o <<"/","j","o","b","/">> \o job \o <<"/">>
             \o str_int(CHOOSE n \in build_number : TRUE) \o <<"/","c","o","n","s","o","l","e","T","e","x","t">>
      net == <<Request("GET", build_url)>>
  IN IF ~all_credentials(user, token)
     THEN Returned(<<"J","e","n","k","i","n","s"," ","c","r","e","d","e","n","t","i","a","l","s"," ","n","o","t"," ","c","o","n","f","i","g","u","r","e","d",".">>, <<>>)
     ELSE IF h.exc
     THEN Returned(<<"E","r","r","o","r"," ","g","e","t","t","i","n","g"," ","b","u","i","l","d"," ","l","o","g","s",":"," ">> \o h.msg, net)
     ELSE IF h.status_code = 200
     THEN Returned(<<"B","u","i","l","d"," ","l","o","g","s"," ","f","o","r"," ","'">> \o job \o <<"'",":","\n">> \o truncate_logs(h.text), net)
     ELSE IF h.status_code = 404
     THEN Returned(<<"B","u","i","l","d"," ","l","o","g","s"," ","n","o","t"," ","f","o","u","n","d"," ","f","o","r"," ","'">> \o job \o <<"'",".">>, net)
     ELSE Returned(<<"F","a","i","l","e","d"," ","t","o"," ","g","e","t"," ","b","u","i","l","d"," ","l","o","g","s","."," ","S","t","a","t","u","s"," ","c","o","d","e",":"," ">> \o str_int(h.status_code), net)

CompilationError == <<"C","o","m","p","i","l","a","t","i","o","n"," ","E","r","r","o","r">>

DependencyIssue == <<"D","e","p","e","n","d","e","n","c","y"," ","I","s","s","u","e">>

PermissionError == <<"P","e","r","m","i","s","s","i","o","n"," ","E","r","r","o","r">>

NetworkError == <<"N","e","t","w","o","r","k"," ","E","r","r","o","r">>

BuildToolError == <<"B","u","i","l","d"," ","T","o","o","l"," ","E","r","r","o","r">>

TestFailure == <<"T","e","s","t"," ","F","a","i","l","u","r","e">>

\* the dict of line 132, in insertion order
error_patterns == <<
  [error_type |-> CompilationError,
   patterns |-> << <<"e","r","r","o","r",":">>, <<"E","r","r","o","r",":">>, <<"c","o","m","p","i","l","a","t","i","o","n"," ","f","a","i","l","e","d">> >>],
  [error_type |-> DependencyIssue,
   patterns |-> << <<"M","o","d","u","l","e","N","o","t","F","o","u","n","d","E","r","r","o","r">>, <<"I","m","p","o","r","t","E","r","r","o","r">>, <<"n","p","m"," ","E","R","R">>, <<"p","i","p"," ","i","n","s","t","a","l","l">> >>],
  [error_type |-> PermissionError,
   patterns |-> << <<"P","e","r","m","i","s","s","i","o","n"," ","d","e","n","i","e","d">>, <<"a","c","c","e","s","s"," ","d","e","n","i","e","d">>, <<"E","A","C","C","E","S">> >>],
  [error_type |-> NetworkError,
   patterns |-> << <<"C","o","n","n","e","c","t","i","o","n"," ","r","e","f","u","s","e","d">>, <<"t","i","m","e","o","u","t">>, <<"n","e","t","w","o","r","k"," ","e","r","r","o","r">> >>],
  [error_type |-> BuildToolError,
   patterns |-> << <<"m","a","v","e","n">>, <<"g","r","a","d","l","e">>, <<"n","p","m">>, <<"y","a","r","n">> >>],
  [error_type |-> TestFailure,
   patterns |-> << <<"F","A","I","L","E","D">>, <<"A","s","s","e","r","t","i","o","n","E","r","r","o","r">>, <<"t","e","s","t"," ","f","a","i","l","e","d">> >>] >>

\* pattern.lower() in logs.lower(); logs_lower is logs.lower()
pattern_in_logs(pattern, logs_lower) == str_in(str_lower(pattern), logs_lower)

\* the inner loop of lines 143-146 from pattern j on: TRUE when it appends
\* the error type and breaks
RECURSIVE scan_patterns(_, _, _)
scan_patterns(patterns, j, logs_lower) ==
  IF j > Len(patterns) THEN FALSE
  ELSE IF pattern_in_logs(patterns[j], logs_lower) THEN TRUE
  ELSE scan_patterns(patterns, j + 1, logs_lower)

\* found_errors after the outer loop of lines 142-146 from entry i on
RECURSIVE found_errors_from(_, _)
found_errors_from(i, logs_lower) ==
  IF i > Len(error_patterns) THEN <<>>
  ELSE (IF scan_patterns(error_patterns[i].patterns, 1, logs_lower)
        THEN <<error_patterns[i].error_type>> ELSE <<>>)
       \o found_errors_from(i + 1, logs_lower)

\* the elements of set(list), in the order this process iterates the set
set_of(list, order) ==
  SelectSeq(order, LAMBDA t : \E i \in 1..Len(list) : list[i] = t)

\* lines 132-151, on the log text cut out of the response
report_errors(job, logs, order) ==
  LET found_errors == found_errors_from(1, str_lower(logs))
  IN IF found_errors # <<>>
     THEN <<"E","r","r","o","r"," ","A","n","a","l","y","s","i","s"," ","f","o","r"," ","'">> \o job \o <<"'",":","\n","F","o","u","n","d"," ","i","s","s","u","e","s",":"," ">>
          \o str_join(set_of(found_errors, order)) \o <<"\n","\n","F","u","l","l"," ","l","o","g","s",":","\n">> \o logs
     ELSE <<"N","o"," ","c","o","m","m","o","n"," ","e","r","r","o","r","s"," ","d","e","t","e","c","t","e","d"," ","i","n"," ","'">> \o job \o <<"'"," ","b","u","i","l","d"," ","l","o","g","s",".","\n","\n","L","o","g","s",":","\n">> \o logs

\* line 130: the text after the header of the logs response
extract_logs(logs_response) ==
  IF str_in(<<"B","u","i","l","d"," ","l","o","g","s"," ","f","o","r">>, logs_response)
  THEN after_first_newline(split_second(logs_response, <<"B","u","i","l","d"," ","l","o","g","s"," ","f","o","r">>))
  ELSE <<>>

\* line 130 raises IndexError when the piece has no newline
extract_logs_raises(logs_response) ==
  /\ str_in(<<"B","u","i","l","d"," ","l","o","g","s"," ","f","o","r">>, logs_response)
  /\ ~has_newline(split_second(logs_response, <<"B","u","i","l","d"," ","l","o","g","s"," ","f","o","r">>))

analyze_build_errors(user, token, job, order, h) ==
  LET r == get_build_logs(user, token, job, {}, h)
      logs_response == r.text
  IN IF ~all_credentials(user, token)
     THEN Returned(<<"J","e","n","k","i","n","s"," ","c","r","e","d","e","n","t","i","a","l","s"," ","n","o","t"," ","c","o","n","f","i","g","u","r","e","d",".">>, <<>>)
     ELSE IF str_startswith(logs_response, <<"E","r","r","o","r">>) THEN r
     ELSE IF extract_logs_raises(logs_response) THEN Raised("IndexError", r.net)
     ELSE Returned(report_errors(job, extract_logs(logs_response), order), r.net)

HelpText(job) ==
  <<"A","v","a","i","l","a","b","l","e"," ","o","p","e","r","a","t","i","o","n","s"," ","f","o","r"," ","j","o","b"," ","'">> \o job \o <<"'",":"," ","t","r","i","g","g","e","r",","," ","s","t","a","t","u","s",","," ","l","o","g","s",","," ","a","n","a","l","y","z","e",","," ","c","r","e","a","t","e">>

\* a chain that tests the logs keywords before the status keywords
route_logs_before_status(op) ==
  IF str_in(<<"t","r","i","g","g","e","r">>, op) \/ str_in(<<"b","u","i","l","d">>, op) \/ str_in(<<"r","u","n">>, op)
  THEN "trigger"
  ELSE IF str_in(<<"l","o","g","s">>, op) \/ str_in(<<"o","u","t","p","u","t">>, op) THEN "logs"
  ELSE IF str_in(<<"s","t","a","t","u","s">>, op) \/ str_in(<<"c","h","e","c","k">>, op) THEN "status"
  ELSE IF str_in(<<"e","r","r","o","r">>, op) \/ str_in(<<"a","n","a","l","y","z","e">>, op) \/ str_in(<<"d","e","b","u","g">>, op)
  THEN "analyze"
  ELSE IF str_in(<<"c","r","e","a","t","e">>, op) THEN "create"
  ELSE "help"

\* the if/elif chain of jenkins_operations, on the normalised text
route(op) ==
  IF str_in(<<"t","r","i","g","g","e","r">>, op) \/ str_in(<<"b","u","i","l","d">>, op) \/ str_in(<<"r","u","n">>, op)
  THEN "trigger"
  ELSE IF str_in(<<"s","t","a","t","u","s">>, op) \/ str_in(<<"c","h","e","c","k">>, op) THEN "status"
  ELSE IF str_in(<<"l","o","g","s">>, op) \/ str_in(<<"o","u","t","p","u","t">>, op) THEN "logs"
  ELSE IF str_in(<<"e","r","r","o","r">>, op) \/ str_in(<<"a","n","a","l","y","z","e">>, op) \/ str_in(<<"d","e","b","u","g">>, op)
  THEN "analyze"
  ELSE IF str_in(<<"c","r","e","a","t","e">>, op) THEN "create"
  ELSE "help"

\* line 158
normalise(text) == str_strip(str_lower(text))

\* the function a branch calls, run against the server's answer h
call_branch(b, user, token, b64, job, order, h) ==
  CASE b = "trigger" -> trigger_jenkins_job(user, token, job, h)
    [] b = "status"  -> get_job_status(user, token, job, h)
    [] b = "logs"    -> get_build_logs(user, token, job, {}, h)
    [] b = "analyze" -> analyze_build_errors(user, token, job, order, h)
    [] b = "create"  -> create_jenkins_job(user, token, b64, job, h)
    [] OTHER         -> Returned(HelpText(job), <<>>)

\* ------------------------------------------------------------------------
\* Inputs of the Jenkins tool: operation texts, and what the server answers.
\* ------------------------------------------------------------------------
Words == { <<"t","r","i","g","g","e","r">>, <<"b","u","i","l","d">>, <<"r","u","n">>, <<"S","T","A","T","U","S">>, <<"c","h","e","c","k">>, <<"l","o","g","s">>,
           <<"o","u","t","p","u","t">>, <<"e","r","r","o","r">>, <<"a","n","a","l","y","z","e">>, <<"d","e","b","u","g">>, <<"c","r","e","a","t","e">>, <<" ","l","i","s","t","\n">> }

\* the texts of exactly n words
RECURSIVE TextsOf(_)
TextsOf(n) ==
  IF n <= 1 THEN Words
  ELSE {t \o <<" ">> \o w : t \in TextsOf(n - 1), w \in Words}

OperationTexts == {<<>>} \cup UNION {TextsOf(n) : n \in 1..MaxWords}

StatusCodes == {200, 201, 400, 403, 404, 500}

ExceptionMessages == { <<"C","o","n","n","e","c","t","i","o","n"," ","r","e","f","u","s","e","d">> }

NearLimit == (LogLimit - MaxDelta)..(LogLimit + MaxDelta)

ConsoleLogs ==
  { <<>>,
    <<"S","t","a","r","t","e","d"," ","b","y"," ","u","s","e","r"," ","a","d","m","i","n","\n","F","i","n","i","s","h","e","d",":"," ","S","U","C","C","E","S","S">>,
    <<"M","o","d","u","l","e","N","o","t","F","o","u","n","d","E","r","r","o","r",":"," ","N","o"," ","m","o","d","u","l","e"," ","n","a","m","e","d"," ","x","\n","F","A","I","L","E","D","\n","F","A","I","L","E","D"," ","M","o","d","u","l","e","N","o","t","F","o","u","n","d","E","r","r","o","r">>,
    <<"n","p","m"," ","E","R","R","!"," ","c","o","d","e"," ","1","\n","B","u","i","l","d"," ","l","o","g","s"," ","f","o","r"," ","s","t","a","g","e"," ","2","\n","t","e","s","t"," ","f","a","i","l","e","d">>,
    <<"E","r","r","o","r",":"," ","c","o","m","p","i","l","a","t","i","o","n"," ","f","a","i","l","e","d">>,
    <<"P","e","r","m","i","s","s","i","o","n"," ","d","e","n","i","e","d","\n","C","o","n","n","e","c","t","i","o","n"," ","r","e","f","u","s","e","d">> }
  \cup {Pad("x", n) : n \in NearLimit}
  \cup {Pad("x", n - 6) \o <<"F","A","I","L","E","D">> : n \in NearLimit}
  \cup {Pad("x", BigLogLen), <<"I","m","p","o","r","t","E","r","r","o","r","\n">> \o Pad("x", BigLogLen - 12)}

JsonBodies ==
  { JsonResponse(200, FALSE, FALSE, <<>>, {}),
    JsonResponse(200, TRUE, TRUE, <<>>, {41}),
    JsonResponse(200, TRUE, FALSE, <<"S","U","C","C","E","S","S">>, {7}),
    JsonResponse(200, TRUE, FALSE, <<"F","A","I","L","U","R","E">>, {}) }

\* what requests.post / requests.get can give the function of branch b
HttpOutcomes(b) ==
  {RequestException(m) : m \in ExceptionMessages}
  \cup (IF b \in {"logs", "analyze"}
        THEN {Response(200, l) : l \in ConsoleLogs}
             \cup {Response(c, <<>>) : c \in StatusCodes \ {200}}
        ELSE {Response(c, <<>>) : c \in StatusCodes})
  \cup (IF b = "status" THEN JsonBodies ELSE {})

CategoryOrder == <<CompilationError, DependencyIssue, PermissionError,
                   NetworkError, BuildToolError, TestFailure>>

Reverse(s) == [i \in 1..Len(s) |-> s[Len(s) + 1 - i]]

JobNames == { <<"r","a","g","-","a","g","e","n","t","-","j","o","b">> }

\* ------------------------------------------------------------------------
\* The Jenkins tool as a state machine.
\* ------------------------------------------------------------------------
CIInit ==
  /\ JENKINS_USERNAME \in { {}, {<<>>}, { <<"a","d","m","i","n">> } }
  /\ JENKINS_API_TOKEN \in { {}, { <<"1","1","a","a">> } }
  /\ b64encode_defined \in BOOLEAN
  /\ hash_order \in {CategoryOrder, Reverse(CategoryOrder)}
  /\ job_name \in JobNames
  /\ ci_pc = "idle"
  /\ operation_arg = <<>>
  /\ operation = <<>>
  /\ branch = "none"
  /\ http = NoHttp
  /\ ci_result = NoResult

ci_config == <<JENKINS_USERNAME, JENKINS_API_TOKEN, b64encode_defined, hash_order, job_name>>

\* jenkins_operations(text) is entered: line 158 and the if/elif conditions
JenkinsOperations(text) ==
  /\ ci_pc = "idle"
  /\ ci_pc' = "routed"
  /\ operation_arg' = text
  /\ operation' = normalise(text)
  /\ branch' = route(normalise(text))
  /\ UNCHANGED <<ci_config, http, ci_result>>

\* the branch's function is called: it gets job_name, not the text
CallBranch ==
  /\ ci_pc = "routed"
  /\ ci_pc' = "calling"
  /\ operation_arg' = <<>>
  /\ operation' = <<>>
  /\ UNCHANGED <<ci_config, branch, http, ci_result>>

\* the called function runs to its end against the server's answer h
RunBranch(b, h) ==
  /\ ci_pc = "calling"
  /\ branch = b
  /\ LET r == call_branch(b, JENKINS_USERNAME, JENKINS_API_TOKEN, b64encode_defined,
                          job_name, hash_order, h)
     IN /\ ci_result' = r
        /\ http' = IF r.net = <<>> THEN NoHttp ELSE h
  /\ ci_pc' = "returned"
  /\ UNCHANGED <<ci_config, operation_arg, operation, branch>>

TriggerJenkinsJob == \E h \in HttpOutcomes("trigger") : RunBranch("trigger", h)

GetJobStatus == \E h \in HttpOutcomes("status") : RunBranch("status", h)

GetBuildLogs == \E h \in HttpOutcomes("logs") : RunBranch("logs", h)

AnalyzeBuildErrors == \E h \in HttpOutcomes("analyze") : RunBranch("analyze", h)

CreateJenkinsJob == \E h \in HttpOutcomes("create") : RunBranch("create", h)

Help == RunBranch("help", NoHttp)

\* the caller has the result (or the exception); the tool is ready again
CIReturn ==
  /\ ci_pc = "returned"
  /\ ci_pc' = "idle"
  /\ branch' = "none"
  /\ http' = NoHttp
  /\ ci_result' = NoResult
  /\ UNCHANGED <<ci_config, operation_arg, operation>>

Invoke == \E text \in OperationTexts : JenkinsOperations(text)

\* ------------------------------------------------------------------------
\* code_indexer.py
\* ------------------------------------------------------------------------
VARIABLES
  \* the directory CHROMA_DIR: whether it exists, the documents in its
  \* collection, how many from_documents calls wrote into it since it was
  \* created, whether a write into it was cut short (torn) and whether a
  \* failed rmtree removed part of it (damaged)
  store,
  \* the directory "unzipped": whether it exists and the files in it
  unzipped,
  \* position of the unzip_and_index call: "idle", then the line it is at,
  \* then "returned"
  ix_pc,
  \* its arguments
  zip_path,
  language,
  \* its locals after the walk: the files read, and the Document list
  docs,
  documents,
  \* the exception being handled, when there is one
  ix_error,
  \* what it gave its caller: a status text, or an exception that escaped
  ix_result,
  \* the store as it was when the call began
  store_before,
  \* the force_delete call the run has just made: what each rmtree did and
  \* how the call ended; forgotten at the next statement
  fd,
  \* whether the call before this one returned an "Indexed ..." status,
  \* and its archive when it did
  prev_run

ix_vars == <<store, unzipped, ix_pc, zip_path, language, docs, documents,
             ix_error, ix_result, store_before, fd, prev_run>>

CHROMA_DIR == <<"c","h","r","o","m","a","_","s","t","o","r","e">>

EXTENSIONS(lang) ==
  CASE lang = "Python"     -> { <<".","p","y">> }
    [] lang = "JavaScript" -> { <<".","j","s">>, <<".","j","s","x">>, <<".","t","s">>, <<".","t","s","x">> }
    [] lang = "Java"       -> { <<".","j","a","v","a">> }
    [] lang = "Markdown"   -> { <<".","m","d">> }
    [] lang = "Text"       -> { <<".","t","x","t">> }
    [] lang = "All"        -> { <<".","p","y">>, <<".","j","s">>, <<".","j","s","x">>, <<".","t","s">>, <<".","t","s","x">>, <<".","j","a","v","a">>,
                                <<".","m","d">>, <<".","t","x","t">>, <<".","j","s","o","n">>, <<".","y","a","m","l">>, <<".","y","m","l">>,
                                <<".","x","m","l">>, <<".","h","t","m","l">>, <<".","c","s","s">> }

SupportedLanguages == {"Python", "JavaScript", "Java", "Markdown", "Text", "All"}

\* EXTENSIONS.get(language, EXTENSIONS["All"])
valid_exts(lang) == IF lang \in SupportedLanguages THEN EXTENSIONS(lang) ELSE EXTENSIONS("All")

\* default arguments of force_delete
Retries == 3

Delay == 2

\* force_delete from attempt number `attempt` (0-based) on: outcomes[i] is
\* what the i-th shutil.rmtree does, "ok", "PermissionError" (caught: sleep
\* and retry) or another exception (not caught).
RECURSIVE force_delete_from(_, _, _)
force_delete_from(attempt, exists, outcomes) ==
  IF attempt >= Retries
  THEN [deleted |-> FALSE, exc |-> "RuntimeError", attempts |-> attempt,
        slept |-> Delay * attempt]
  ELSE IF ~exists
  THEN [deleted |-> FALSE, exc |-> "", attempts |-> attempt, slept |-> Delay * attempt]
  ELSE IF outcomes[attempt + 1] = "ok"
  THEN [deleted |-> TRUE, exc |-> "", attempts |-> attempt + 1, slept |-> Delay * attempt]
  ELSE IF outcomes[attempt + 1] = "PermissionError"
  THEN force_delete_from(attempt + 1, exists, outcomes)
  ELSE [deleted |-> FALSE, exc |-> outcomes[attempt + 1], attempts |-> attempt + 1,
        slept |-> Delay * attempt]

\* a force_delete that gives up at the first PermissionError
force_delete_once(exists, outcomes) ==
  IF ~exists
  THEN [deleted |-> FALSE, exc |-> "", attempts |-> 0, slept |-> 0]
  ELSE IF outcomes[1] = "ok"
  THEN [deleted |-> TRUE, exc |-> "", attempts |-> 1, slept |-> 0]
  ELSE IF outcomes[1] = "PermissionError"
  THEN [deleted |-> FALSE, exc |-> "RuntimeError", attempts |-> 1, slept |-> Delay]
  ELSE [deleted |-> FALSE, exc |-> outcomes[1], attempts |-> 1, slept |-> 0]

\* a force_delete that only says it deleted
force_delete_noop(exists, outcomes) ==
  [deleted |-> FALSE, exc |-> "", attempts |-> 0, slept |-> 0]

force_delete(exists, outcomes) == force_delete_from(0, exists, outcomes)

\* any(file.endswith(ext) for ext in valid_exts)
has_valid_ext(file, lang) == \E ext \in valid_exts(lang) : str_endswith(file, ext)

\* os.path.join(root, file), for the files under "unzipped"
file_path_of(name) == <<"u","n","z","i","p","p","e","d","/">> \o name

\* lines 50-61: the files of the tree that have a valid extension, can be
\* read and are not blank, as (file_path, content) pairs
walk(files, lang, unreadable) ==
  {[file_path |-> file_path_of(f.name), content |-> f.content] :
     f \in {g \in files : /\ has_valid_ext(g.name, lang)
                          /\ g.name \notin unreadable
                          /\ str_strip(g.content) # <<>>}}

\* RecursiveCharacterTextSplitter(chunk_size=1000, chunk_overlap=100)
ChunkSize == 1000

ChunkOverlap == 100

Separators == << <<"\n","\n">>, <<"\n">>, <<" ">>, <<>> >>

\* offsets of the non-overlapping occurrences of sep in text from k on
RECURSIVE occurrences(_, _, _)
occurrences(text, sep, k) ==
  LET at == {j \in k..(Len(text) - Len(sep)) : occurs_at(sep, text, j)}
  IN IF at = {} THEN <<>>
     ELSE <<SetMin(at)>> \o occurrences(text, sep, SetMin(at) + Len(sep))

\* _split_text_with_regex(text, sep, keep_separator=True): the text cut
\* before every separator, empty pieces dropped
split_keep(text, sep) ==
  IF sep = <<>> THEN [i \in 1..Len(text) |-> <<text[i]>>]
  ELSE LET cuts == <<0>> \o occurrences(text, sep, 0) \o <<Len(text)>>
           pieces == [i \in 1..(Len(cuts) - 1) |-> SubSeq(text, cuts[i] + 1, cuts[i + 1])]
       IN SelectSeq(pieces, LAMBDA p : p # <<>>)

\* "".join(list), joined by halves
RECURSIVE concat(_)
concat(list) ==
  IF list = <<>> THEN <<>>
  ELSE IF Len(list) = 1 THEN list[1]
  ELSE LET half == Len(list) \div 2
       IN concat(SubSeq(list, 1, half)) \o concat(SubSeq(list, half + 1, Len(list)))

\* _join_docs(docs, ""): the joined text stripped, as a list of no or one chunk
join_docs(current_doc) ==
  LET text == str_strip(concat(current_doc))
  IN IF text = <<>> THEN <<>> ELSE <<text>>

\* a while loop that keeps no piece for the overlap
pop_step_no_overlap(kept, len) ==
  IF kept.total > 0
  THEN [doc |-> Tail(kept.doc), total |-> kept.total - Len(Head(kept.doc))]
  ELSE kept

\* one test of the while loop of _merge_splits, and its body when the test
\* passes: drop the piece at the front
pop_step(kept, len) ==
  IF kept.total > ChunkOverlap \/ (kept.total + len > ChunkSize /\ kept.total > 0)
  THEN [doc |-> Tail(kept.doc), total |-> kept.total - Len(Head(kept.doc))]
  ELSE kept

\* up to n turns of the while loop (by halves): when the first half did
\* not drop a piece at every turn, the loop has ended
RECURSIVE pop_front_n(_, _, _)
pop_front_n(kept, len, n) ==
  IF n <= 0 THEN kept
  ELSE IF n = 1 THEN pop_step(kept, len)
  ELSE LET first == pop_front_n(kept, len, n \div 2)
       IN IF Len(first.doc) = Len(kept.doc) - (n \div 2)
          THEN pop_front_n(first, len, n - (n \div 2))
          ELSE first

\* the while loop of _merge_splits: it ends before the list is empty or
\* when it is
pop_front(current_doc, total, len) ==
  pop_front_n([doc |-> current_doc, total |-> total], len, Len(current_doc))

\* the body of the for loop of _merge_splits for the piece d
merge_step(m, d) ==
  IF m.total + Len(d) > ChunkSize /\ m.current_doc # <<>>
  THEN LET kept == pop_front(m.current_doc, m.total, Len(d))
       IN [out |-> m.out \o join_docs(m.current_doc),
           current_doc |-> Append(kept.doc, d),
           total |-> kept.total + Len(d)]
  ELSE [out |-> m.out, current_doc |-> Append(m.current_doc, d),
        total |-> m.total + Len(d)]

\* the for loop of _merge_splits over splits[lo..hi] (by halves, the first
\* half worked out before the second begins: its total is never negative)
RECURSIVE merge_splits_range(_, _, _, _)
merge_splits_range(splits, lo, hi, m) ==
  IF lo > hi THEN m
  ELSE IF lo = hi THEN merge_step(m, splits[lo])
  ELSE LET mid == (lo + hi) \div 2
           first == merge_splits_range(splits, lo, mid, m)
       IN IF first.total >= 0
          THEN merge_splits_range(splits, mid + 1, hi, first)
          ELSE first

\* _merge_splits(splits, "")
merge_splits(splits) ==
  LET m == merge_splits_range(splits, 1, Len(splits),
                              [out |-> <<>>, current_doc |-> <<>>, total |-> 0])
  IN m.out \o join_docs(m.current_doc)

\* the first separator of the list from s on that occurs in text ("" always does)
RECURSIVE pick_separator(_, _)
pick_separator(text, s) ==
  IF s >= Len(Separators) \/ str_in(Separators[s], text) THEN s
  ELSE pick_separator(text, s + 1)

\* _split_text(text, separators[s:])
RECURSIVE split_text_from(_, _)

\* the body of the for loop of _split_text for the piece piece: a piece
\* shorter than the chunk size waits in good; another one has the waiting
\* pieces merged, and is split by the separators that are left
split_step(p, piece, s) ==
  IF Len(piece) < ChunkSize
  THEN [final_chunks |-> p.final_chunks, good |-> Append(p.good, piece)]
  ELSE [final_chunks |-> p.final_chunks \o merge_splits(p.good)
                        \o (IF s >= Len(Separators) THEN <<piece>>
                            ELSE split_text_from(piece, s + 1)),
        good |-> <<>>]

\* the for loop of _split_text over splits[lo..hi] (by halves, the first
\* half worked out before the second begins)
RECURSIVE split_pieces_range(_, _, _, _, _)
split_pieces_range(splits, lo, hi, p, s) ==
  IF lo > hi THEN p
  ELSE IF lo = hi THEN split_step(p, splits[lo], s)
  ELSE LET mid == (lo + hi) \div 2
           first == split_pieces_range(splits, lo, mid, p, s)
       IN IF Len(first.good) >= 0
          THEN split_pieces_range(splits, mid + 1, hi, first, s)
          ELSE first

split_pieces(splits, s) ==
  LET p == split_pieces_range(splits, 1, Len(splits),
                              [final_chunks |-> <<>>, good |-> <<>>], s)
  IN p.final_chunks \o merge_splits(p.good)

split_text_from(text, s0) ==
  LET s == pick_separator(text, s0)
  IN split_pieces(split_keep(text, Separators[s]), s)

\* splitter.split_text(content)
split_text(content) == split_text_from(content, 1)

\* Documents that are all given chunk_id 0
file_documents_unnumbered(d, lang) ==
  LET chunks == split_text(d.content)
  IN {[page_content |-> chunks[j],
       source |-> d.file_path,
       chunk_id |-> 0,
       language |-> lang] : j \in 1..Len(chunks)}

\* lines 73-84, the Documents of one file
file_documents(d, lang) ==
  LET chunks == split_text(d.content)
  IN {[page_content |-> chunks[j],
       source |-> d.file_path,
       chunk_id |-> j - 1,
       language |-> lang] : j \in 1..Len(chunks)}

\* lines 73-84
make_documents(files_read, lang) ==
  UNION {file_documents(d, lang) : d \in files_read}

NoStore == [exists |-> FALSE, docs |-> {}, writes |-> 0, torn |-> FALSE, damaged |-> FALSE]

NoDir == [exists |-> FALSE, files |-> {}]

NoDelete ==
  [called |-> FALSE, outcomes |-> <<>>,
   result |-> [deleted |-> FALSE, exc |-> "", attempts |-> 0, slept |-> 0]]

\* Chroma.from_documents(documents, ..., persist_directory=CHROMA_DIR):
\* opens the collection in the directory, creating it when it is not
\* there, and adds the documents to it
from_documents(st, new_documents) ==
  [exists |-> TRUE, docs |-> st.docs \cup new_documents, writes |-> st.writes + 1,
   torn |-> st.torn, damaged |-> st.damaged]

\* zip_ref.extractall("unzipped"): writes each member, creating the
\* directory for the first one and replacing the files of the same name; an
\* archive with no member creates nothing
extractall(dir, files) ==
  [exists |-> dir.exists \/ files # {},
   files |-> {f \in dir.files : \A g \in files : g.name # f.name} \cup files]

\* an rmtree that returns and leaves the tree
rmtree_keeps(dir) == dir

\* shutil.rmtree(dir) that does not raise
rmtree(dir) == NoDir

Status(text) == [raised |-> FALSE, exc |-> "", text |-> text]

Escaped(exc) == [raised |-> TRUE, exc |-> exc, text |-> <<>>]

NoStatus == Status(<<>>)

NoFilesStatus == <<"N","o"," ","s","u","p","p","o","r","t","e","d"," ","c","o","d","e"," ","f","i","l","e","s"," ","f","o","u","n","d"," ","f","o","r"," ","i","n","d","e","x","i","n","g",".">>

IndexedStatus(n_docs, n_documents) ==
  <<"I","n","d","e","x","e","d"," ">> \o str_int(n_docs) \o <<" ","f","i","l","e","s"," ","a","n","d"," ","s","t","o","r","e","d"," ">> \o str_int(n_documents)
  \o <<" ","d","o","c","u","m","e","n","t"," ","c","h","u","n","k","s",".">>

ErrorStatus(msg) == <<"E","r","r","o","r"," ","d","u","r","i","n","g"," ","i","n","d","e","x","i","n","g",":"," ">> \o msg

\* ------------------------------------------------------------------------
\* Inputs of the indexer: archives, language filters, and what the file
\* system and the libraries can do to a run.
\* ------------------------------------------------------------------------
File(name, content) == [name |-> name, content |-> content]

\* the files in the archive at a path
ArchiveFiles(path) ==
  CASE path = "first.zip"  -> { File(<<"a","p","p",".","p","y">>, <<"x"," ","="," ","1","\n">>),
                                File(<<"R","E","A","D","M","E",".","m","d">>, <<"#"," ","d","o","c","\n","\n","u","s","a","g","e">>) }
    [] path = "second.zip" -> { File(<<"a","p","p",".","p","y">>, <<"y"," ","="," ","2","\n">>),
                                File(<<"m","a","i","n",".","j","s">>, <<"l","e","t"," ","a",";">>) }
    [] path = "assets.zip" -> { File(<<"l","o","g","o",".","p","n","g">>, <<"P","N","G">>),
                                File(<<"n","o","t","e","s",".","t","x","t">>, <<" ","\n">>) }
    [] path = "empty.zip"  -> {}

ZipPaths == {"first.zip", "second.zip", "assets.zip", "empty.zip"}

\* the values of the language selector, and one that is not in EXTENSIONS
Languages == SupportedLanguages \cup {"Rust"}

\* what the rmtree calls of one force_delete would do, attempt by attempt,
\* for one attempt more than it makes: PermissionError k times, then "ok"
\* or "OSError" from then on
DeleteOutcomes ==
  {[i \in 1..(Retries + 1) |-> IF i <= k THEN "PermissionError" ELSE last] :
     k \in 0..(Retries + 1), last \in {"ok", "OSError"}}

DeleteErrorText(exc) ==
  IF exc = "RuntimeError"
  THEN <<"F","a","i","l","e","d"," ","t","o"," ","d","e","l","e","t","e"," ">> \o CHROMA_DIR \o <<" ","a","f","t","e","r"," ">> \o str_int(Retries) \o <<" ","r","e","t","r","i","e","s",".">>
  ELSE <<"[","E","r","r","n","o"," ","3","9","]"," ","D","i","r","e","c","t","o","r","y"," ","n","o","t"," ","e","m","p","t","y",":"," ","'","c","h","r","o","m","a","_","s","t","o","r","e","'">>

IndexInit ==
  /\ store = NoStore
  /\ unzipped = NoDir
  /\ ix_pc = "idle"
  /\ zip_path = ""
  /\ language = ""
  /\ docs = {}
  /\ documents = {}
  /\ ix_error = <<>>
  /\ ix_result = NoStatus
  /\ store_before = NoStore
  /\ fd = NoDelete
  /\ prev_run = [zip_path |-> "", indexed |-> FALSE]

\* ------------------------------------------------------------------------
\* unzip_and_index as a state machine, one step per statement that touches
\* the disk or a library.
\* ------------------------------------------------------------------------
ix_locals == <<zip_path, language, docs, documents, store_before, prev_run>>

\* a statement of the try block raised: control goes to the except clause
Raise(msg) ==
  /\ ix_error' = msg
  /\ ix_pc' = "except"

UnzipAndIndex(path, lang) ==
  /\ ix_pc = "idle"
  /\ zip_path' = path
  /\ language' = lang
  /\ store_before' = store
  /\ ix_pc' = "delete"
  /\ UNCHANGED <<store, unzipped, docs, documents, ix_error, ix_result, prev_run>>
  /\ UNCHANGED fd

Index == \E path \in ZipPaths, lang \in Languages : UnzipAndIndex(path, lang)

\* line 40, no directory at CHROMA_DIR
NoStoreToDelete ==
  /\ ix_pc = "delete"
  /\ ~store.exists
  /\ ix_pc' = "extract"
  /\ UNCHANGED <<store, unzipped, ix_locals, ix_error, ix_result>>
  /\ UNCHANGED fd

\* lines 40-41, force_delete(CHROMA_DIR); a failed rmtree may have removed
\* part of the tree
ForceDelete ==
  /\ ix_pc = "delete"
  /\ store.exists
  /\ \E outcomes \in DeleteOutcomes, partly \in BOOLEAN :
       LET r == force_delete(store.exists, outcomes)
       IN /\ fd' = [called |-> TRUE, outcomes |-> outcomes, result |-> r]
          /\ IF r.exc # ""
             THEN /\ store' = [store EXCEPT !.damaged = @ \/ partly]
                  /\ Raise(DeleteErrorText(r.exc))
             ELSE /\ ~partly
                  /\ store' = IF r.deleted THEN NoStore ELSE store
                  /\ ix_pc' = "extract"
                  /\ UNCHANGED ix_error
  /\ UNCHANGED <<unzipped, ix_locals, ix_result>>

\* lines 43-44
ExtractAll ==
  /\ ix_pc = "extract"
  /\ unzipped' = extractall(unzipped, ArchiveFiles(zip_path))
  /\ ix_pc' = "walk"
  /\ UNCHANGED <<store, ix_locals, ix_error, ix_result>>
  /\ fd' = NoDelete

\* lines 43-44, the archive cannot be opened
BadZipFile ==
  /\ ix_pc = "extract"
  /\ Raise(<<"F","i","l","e"," ","i","s"," ","n","o","t"," ","a"," ","z","i","p"," ","f","i","l","e">>)
  /\ UNCHANGED <<store, unzipped, ix_locals, ix_result>>
  /\ fd' = NoDelete

\* lines 43-44, extractall raises after it wrote some of the files
ExtractFails ==
  /\ ix_pc = "extract"
  /\ \E part \in SUBSET ArchiveFiles(zip_path) :
       /\ part # ArchiveFiles(zip_path)
       /\ unzipped' = extractall(unzipped, part)
  /\ Raise(<<"[","E","r","r","n","o"," ","2","8","]"," ","N","o"," ","s","p","a","c","e"," ","l","e","f","t"," ","o","n"," ","d","e","v","i","c","e">>)
  /\ UNCHANGED <<store, ix_locals, ix_result>>
  /\ fd' = NoDelete

\* lines 46-61; at most one file cannot be read, and it is skipped
Walk ==
  /\ ix_pc = "walk"
  /\ \E unreadable \in {{}} \cup {{f.name} : f \in unzipped.files} :
       /\ docs' = walk(unzipped.files, language, unreadable)
       /\ ix_pc' = IF docs' = {} THEN "cleanup" ELSE "split"
  /\ UNCHANGED <<store, unzipped, zip_path, language, documents, store_before,
                 prev_run, ix_error, ix_result>>
  /\ UNCHANGED fd

\* lines 67-84
Split ==
  /\ ix_pc = "split"
  /\ documents' = make_documents(docs, language)
  /\ ix_pc' = "embed"
  /\ UNCHANGED <<store, unzipped, zip_path, language, docs, store_before,
                 prev_run, ix_error, ix_result>>
  /\ UNCHANGED fd

\* lines 86-89
LoadEmbeddings ==
  /\ ix_pc = "embed"
  /\ ix_pc' = "write"
  /\ UNCHANGED <<store, unzipped, ix_locals, ix_error, ix_result>>
  /\ UNCHANGED fd

\* lines 86-89, the model cannot be loaded
EmbeddingsFail ==
  /\ ix_pc = "embed"
  /\ Raise(<<"C","o","u","l","d"," ","n","o","t"," ","l","o","a","d"," ","s","e","n","t","e","n","c","e","-","t","r","a","n","s","f","o","r","m","e","r","s","/","a","l","l","-","M","i","n","i","L","M","-","L","6","-","v","2">>)
  /\ UNCHANGED <<store, unzipped, ix_locals, ix_result>>
  /\ UNCHANGED fd

\* lines 91-96
WriteStore ==
  /\ ix_pc = "write"
  /\ store' = from_documents(store, documents)
  /\ ix_pc' = "cleanup"
  /\ UNCHANGED <<unzipped, ix_locals, ix_error, ix_result>>
  /\ UNCHANGED fd

\* lines 91-95, the client cannot be created: nothing is on disk
ChromaClientFails ==
  /\ ix_pc = "write"
  /\ Raise(<<"C","o","u","l","d"," ","n","o","t"," ","c","o","n","n","e","c","t"," ","t","o"," ","t","e","n","a","n","t"," ","d","e","f","a","u","l","t","_","t","e","n","a","n","t">>)
  /\ UNCHANGED <<store, unzipped, ix_locals, ix_result>>
  /\ UNCHANGED fd

\* lines 91-95, from_documents raises after the directory was created and
\* some of the documents were added
WriteFails ==
  /\ ix_pc = "write"
  /\ \E part \in SUBSET documents :
       /\ part # documents
       /\ store' = [from_documents(store, part) EXCEPT !.torn = TRUE]
  /\ Raise(<<"d","a","t","a","b","a","s","e"," ","o","r"," ","d","i","s","k"," ","i","s"," ","f","u","l","l">>)
  /\ UNCHANGED <<unzipped, ix_locals, ix_result>>
  /\ UNCHANGED fd

\* line 96, persist raises after from_documents added every document
PersistFails ==
  /\ ix_pc = "write"
  /\ store' = from_documents(store, documents)
  /\ Raise(<<"d","i","s","k"," ","I","/","O"," ","e","r","r","o","r">>)
  /\ UNCHANGED <<unzipped, ix_locals, ix_result>>
  /\ UNCHANGED fd

\* lines 63-65 and 98-99
RemoveUnzipped ==
  /\ ix_pc = "cleanup"
  /\ unzipped.exists
  /\ unzipped' = rmtree(unzipped)
  /\ ix_result' = IF docs = {} THEN Status(NoFilesStatus)
                  ELSE Status(IndexedStatus(Cardinality(docs), Cardinality(documents)))
  /\ ix_pc' = "returned"
  /\ UNCHANGED <<store, ix_locals, ix_error>>
  /\ UNCHANGED fd

\* line 64, there is no directory "unzipped": rmtree raises
RemoveUnzippedMissing ==
  /\ ix_pc = "cleanup"
  /\ ~unzipped.exists
  /\ Raise(<<"[","E","r","r","n","o"," ","2","]"," ","N","o"," ","s","u","c","h"," ","f","i","l","e"," ","o","r"," ","d","i","r","e","c","t","o","r","y",":"," ","'","u","n","z","i","p","p","e","d","'">>)
  /\ UNCHANGED <<store, unzipped, ix_locals, ix_result>>
  /\ UNCHANGED fd

\* lines 64 and 98, rmtree raises: the tree stays
RemoveUnzippedFails ==
  /\ ix_pc = "cleanup"
  /\ unzipped.exists
  /\ Raise(<<"[","W","i","n","E","r","r","o","r"," ","3","2","]"," ","T","h","e"," ","p","r","o","c","e","s","s"," ","c","a","n","n","o","t"," ","a","c","c","e","s","s"," ","t","h","e"," ","f","i","l","e">>)
  /\ UNCHANGED <<store, unzipped, ix_locals, ix_result>>
  /\ UNCHANGED fd

\* lines 101-104
HandleError ==
  /\ ix_pc = "except"
  /\ unzipped' = IF unzipped.exists THEN rmtree(unzipped) ELSE unzipped
  /\ ix_result' = Status(ErrorStatus(ix_error))
  /\ ix_pc' = "returned"
  /\ UNCHANGED <<store, ix_locals, ix_error>>
  /\ fd' = NoDelete

\* line 103, rmtree raises inside the except clause: the exception leaves
\* unzip_and_index
HandlerFails ==
  /\ ix_pc = "except"
  /\ unzipped.exists
  /\ ix_result' = Escaped("OSError")
  /\ ix_pc' = "returned"
  /\ UNCHANGED <<store, unzipped, ix_locals, ix_error>>
  /\ fd' = NoDelete

\* the caller has the status (or the exception)
IndexReturn ==
  /\ ix_pc = "returned"
  /\ ix_pc' = "idle"
  /\ prev_run' = IF ~ix_result.raised /\ str_startswith(ix_result.text, <<"I","n","d","e","x","e","d">>)
                  THEN [zip_path |-> zip_path, indexed |-> TRUE]
                  ELSE [zip_path |-> "", indexed |-> FALSE]
  /\ zip_path' = ""
  /\ language' = ""
  /\ docs' = {}
  /\ documents' = {}
  /\ ix_error' = <<>>
  /\ ix_result' = NoStatus
  /\ store_before' = NoStore
  /\ UNCHANGED <<store, unzipped>>
  /\ UNCHANGED fd
\* ------------------------------------------------------------------------
\* Files around the chunk size, for lines 67-96 on their own.
\* ------------------------------------------------------------------------
SplitDelta == 2

\* n characters with no white space: the digits 1234567890 over and over
Text(n) == [i \in 1..n |-> DIGITS[(i % 10) + 1]]

\* the length from which a text with no separator has a third chunk
TwoChunks == 2 * ChunkSize - ChunkOverlap

SplitLengths ==
  {1} \cup ((ChunkSize - SplitDelta)..(ChunkSize + SplitDelta))
      \cup ((TwoChunks - SplitDelta)..(TwoChunks + SplitDelta))

\* a long word
Word == Text((ChunkSize \div 2) + ChunkOverlap - 1)

SplitContents ==
  {Text(n) : n \in SplitLengths}
  \cup {Text(n) \o <<"\n">> : n \in (ChunkSize - SplitDelta)..(ChunkSize + SplitDelta)}
  \cup { Word \o <<" ">> \o Word \o <<" ">> \o Word,
         Text(ChunkSize) \o <<"\n","\n">> \o Text(1),
         <<"x"," ","="," ","1","\n">>, <<"#"," ","d","o","c","\n","\n","u","s","a","g","e">>, <<" ","\n">> }

\* the trees that extractall leaves under "unzipped": one file, or two
\* files of the same content
SplitTrees ==
  {{File(<<"b","i","g",".","p","y">>, c)} : c \in SplitContents}
  \cup {{File(<<"a",".","p","y">>, Text(ChunkSize + 1)), File(<<"b",".","p","y">>, Text(ChunkSize + 1))}}

\* unzip_and_index("big.zip", "Python") at line 46, the archive extracted
\* and no store on disk
SplitInit ==
  /\ store = NoStore
  /\ unzipped \in {[exists |-> TRUE, files |-> t] : t \in SplitTrees}
  /\ ix_pc = "walk"
  /\ zip_path = "big.zip"
  /\ language = "Python"
  /\ docs = {}
  /\ documents = {}
  /\ ix_error = <<>>
  /\ ix_result = NoStatus
  /\ store_before = NoStore
  /\ fd = NoDelete
  /\ prev_run = [zip_path |-> "", indexed |-> FALSE]

\* ------------------------------------------------------------------------
\* agent_runner.py
\* ------------------------------------------------------------------------
VARIABLES
  \* position of the run_agent call: "idle", the statement it is at,
  \* "returned"
  ag_pc,
  \* what the call has constructed or invoked so far, in order, up to the
  \* agent: "embedding_fn", "exists", "retriever", "agent"
  ag_trace,
  \* turns of the agent loop completed, whether the language model was
  \* invoked and whether a tool was called
  iterations,
  llm_invoked,
  tool_called,
  \* the payload the codebase_search tool was last given, and what
  \* universal_input_adapter made of it
  input_data,
  ag_query,
  \* the last observation fed back to the model
  observation,
  \* what run_agent gave its caller
  ag_result

ag_vars == <<ag_pc, ag_trace, iterations, llm_invoked, tool_called, input_data,
             ag_query, observation, ag_result>>

NotIndexedText == <<"N","o"," ","i","n","d","e","x","e","d"," ","c","o","d","e","b","a","s","e"," ","f","o","u","n","d","."," ","P","l","e","a","s","e"," ","u","p","l","o","a","d"," ","a","n","d"," ","i","n","d","e","x"," ","a"," ","c","o","d","e","b","a","s","e"," ","f","i","r","s","t",".">>

\* line 76
ErrorRunningAgent(msg) == <<"E","r","r","o","r"," ","r","u","n","n","i","n","g"," ","a","g","e","n","t",":"," ">> \o msg

\* AgentExecutor's answer when the loop is stopped (early_stopping_method
\* "force")
StoppedText == <<"A","g","e","n","t"," ","s","t","o","p","p","e","d"," ","d","u","e"," ","t","o"," ","i","t","e","r","a","t","i","o","n"," ","l","i","m","i","t"," ","o","r"," ","t","i","m","e"," ","l","i","m","i","t",".">>

\* the observation for an output the parser rejects, with
\* handle_parsing_errors=True
InvalidResponse == <<"I","n","v","a","l","i","d"," ","o","r"," ","i","n","c","o","m","p","l","e","t","e"," ","r","e","s","p","o","n","s","e">>

\* AgentExecutor.max_iterations, which initialize_agent is not given
MaxIterations == 15

\* AgentExecutor._should_continue, no max_execution_time
should_continue_always(n) == TRUE

should_continue(n) == n < MaxIterations

\* Python values: a str, an int, None, or a dict as its items in order
PyStr(s) == [type |-> "str", text |-> s, items |-> <<>>]

PyInt(n) == [type |-> "int", text |-> str_int(n), items |-> <<>>]

PyNone == [type |-> "NoneType", text |-> <<"N","o","n","e">>, items |-> <<>>]

PyDict(items) == [type |-> "dict", text |-> <<>>, items |-> items]

Item(key, value) == [key |-> key, value |-> value]

\* bool(value)
truthy(v) ==
  CASE v.type = "str"      -> v.text # <<>>
    [] v.type = "int"      -> v.text # <<"0">>
    [] v.type = "NoneType" -> FALSE
    [] v.type = "dict"     -> v.items # <<>>

\* repr(value) of a value that is not a dict
py_repr(v) == IF v.type = "str" THEN <<"'">> \o v.text \o <<"'">> ELSE v.text

RECURSIVE items_repr(_)
items_repr(items) ==
  IF items = <<>> THEN <<>>
  ELSE <<"'">> \o Head(items).key \o <<"'",":"," ">> \o py_repr(Head(items).value)
       \o (IF Len(items) > 1 THEN <<","," ">> ELSE <<>>) \o items_repr(Tail(items))

\* str(value)
py_str(v) ==
  CASE v.type = "str"  -> v.text
    [] v.type = "dict" -> <<"{">> \o items_repr(v.items) \o <<"}">>
    [] OTHER           -> v.text

\* key in d, d[key]
has_key(d, key) == \E i \in 1..Len(d.items) : d.items[i].key = key

get_item(d, key) == d.items[CHOOSE i \in 1..Len(d.items) : d.items[i].key = key].value

\* line 50
AdapterKeys == << <<"q","u","e","r","y">>, <<"i","n","p","u","t">>, <<"p","a","g","e","_","c","o","n","t","e","n","t">> >>

\* an adapter that tries 'input' before 'query'
AdapterKeysInputFirst == << <<"i","n","p","u","t">>, <<"q","u","e","r","y">>, <<"p","a","g","e","_","c","o","n","t","e","n","t">> >>

\* lines 48-55 with the keys of line 50 given; the result is {"query": value}
adapter_with(keys, data) ==
  IF data.type = "dict"
  THEN LET hits == {i \in 1..Len(keys) :
                      has_key(data, keys[i]) /\ truthy(get_item(data, keys[i]))}
       IN IF hits # {} THEN [query |-> get_item(data, keys[SetMin(hits)])]
          ELSE IF truthy(data) THEN [query |-> data.items[1].value]
          ELSE [query |-> PyStr(py_str(data))]
  ELSE [query |-> PyStr(py_str(data))]

universal_input_adapter_input_first(data) == adapter_with(AdapterKeysInputFirst, data)

universal_input_adapter(data) == adapter_with(AdapterKeys, data)

NoQuery == [query |-> PyNone]

\* ------------------------------------------------------------------------
\* Inputs of the agent: tool payloads, and what the language model, the
\* libraries and the tools can do to a run.
\* ------------------------------------------------------------------------
MaxItems == 2

PayloadKeys == { <<"q","u","e","r","y">>, <<"i","n","p","u","t">>, <<"p","a","g","e","_","c","o","n","t","e","n","t">>, <<"t","e","x","t">> }

PayloadValues == { PyStr(<<"a","u","t","h">>), PyStr(<<>>), PyNone, PyInt(7) }

\* the item lists of dicts of n items: no key twice
RECURSIVE ItemLists(_)
ItemLists(n) ==
  IF n = 0 THEN {<<>>}
  ELSE {Append(l, Item(k, v)) :
          l \in {m \in ItemLists(n - 1) : Len(m) = n - 1},
          k \in PayloadKeys, v \in PayloadValues}
       \cup ItemLists(n - 1)

DistinctKeys(l) == \A i, j \in 1..Len(l) : l[i].key = l[j].key => i = j

Payloads ==
  PayloadValues \cup {PyDict(l) : l \in {m \in ItemLists(MaxItems) : DistinctKeys(m)}}

\* the store after first.zip was indexed with the filter "All"
IndexedStore ==
  from_documents(NoStore, make_documents(walk(ArchiveFiles("first.zip"), "All", {}), "All"))

AgentInit ==
  /\ ag_pc = "idle"
  /\ ag_trace = <<>>
  /\ iterations = 0
  /\ llm_invoked = FALSE
  /\ tool_called = FALSE
  /\ input_data = PyNone
  /\ ag_query = NoQuery
  /\ observation = "none"
  /\ ag_result = NoStatus

\* ------------------------------------------------------------------------
\* run_agent as a state machine; the agent loop is AgentExecutor's, one
\* step per call of the language model or of a tool.
\* ------------------------------------------------------------------------
ag_loop == <<iterations, llm_invoked, tool_called, input_data, ag_query, observation>>

\* the except clause of lines 75-76
AgentError(msg) ==
  /\ ag_result' = Status(ErrorRunningAgent(msg))
  /\ ag_pc' = "returned"

\* line 27
RunAgent ==
  /\ ag_pc = "idle"
  /\ ag_pc' = "embeddings"
  /\ UNCHANGED <<ag_trace, ag_loop, ag_result, store>>

\* a run that makes the retriever without looking for the store
LoadAgentEmbeddingsNoCheck ==
  /\ ag_pc = "embeddings"
  /\ ag_trace' = Append(ag_trace, "embedding_fn")
  /\ ag_pc' = "retriever"
  /\ UNCHANGED <<ag_loop, ag_result, store>>

\* lines 29-32
LoadAgentEmbeddings ==
  /\ ag_pc = "embeddings"
  /\ ag_trace' = Append(ag_trace, "embedding_fn")
  /\ ag_pc' = "check"
  /\ UNCHANGED <<ag_loop, ag_result, store>>

\* lines 29-32, the model cannot be loaded
AgentEmbeddingsFail ==
  /\ ag_pc = "embeddings"
  /\ AgentError(<<"C","o","u","l","d"," ","n","o","t"," ","l","o","a","d"," ","s","e","n","t","e","n","c","e","-","t","r","a","n","s","f","o","r","m","e","r","s","/","a","l","l","-","M","i","n","i","L","M","-","L","6","-","v","2">>)
  /\ UNCHANGED <<ag_trace, ag_loop, store>>

\* lines 34-35
StoreMissing ==
  /\ ag_pc = "check"
  /\ ~store.exists
  /\ ag_trace' = Append(ag_trace, "exists")
  /\ ag_result' = Status(NotIndexedText)
  /\ ag_pc' = "returned"
  /\ UNCHANGED <<ag_loop, store>>

\* line 34, the directory is there
StoreFound ==
  /\ ag_pc = "check"
  /\ store.exists
  /\ ag_trace' = Append(ag_trace, "exists")
  /\ ag_pc' = "retriever"
  /\ UNCHANGED <<ag_loop, ag_result, store>>

\* lines 37-71: Chroma opens the directory (and creates it when it is not
\* there any more), the tools and the agent are made
BuildRetriever ==
  /\ ag_pc = "retriever"
  /\ store' = IF store.exists THEN store ELSE [NoStore EXCEPT !.exists = TRUE]
  /\ ag_trace' = ag_trace \o <<"retriever", "agent">>
  /\ ag_pc' = "loop"
  /\ UNCHANGED <<ag_loop, ag_result>>

\* lines 37-40, the client cannot be created
ChromaOpenFails ==
  /\ ag_pc = "retriever"
  /\ AgentError(<<"C","o","u","l","d"," ","n","o","t"," ","c","o","n","n","e","c","t"," ","t","o"," ","t","e","n","a","n","t"," ","d","e","f","a","u","l","t","_","t","e","n","a","n","t">>)
  /\ UNCHANGED <<ag_trace, ag_loop, store>>

\* one more turn of the loop, counted up to the limit
NextIteration ==
  iterations' = IF iterations < MaxIterations THEN iterations + 1 ELSE iterations

\* line 73, the model gives a final answer
LLMFinalAnswer ==
  /\ ag_pc = "loop"
  /\ should_continue(iterations)
  /\ llm_invoked' = TRUE
  /\ ag_result' = Status(<<"T","h","e"," ","b","u","i","l","d"," ","f","a","i","l","e","d"," ","i","n"," ","t","h","e"," ","t","e","s","t"," ","s","t","a","g","e",".">>)
  /\ ag_pc' = "returned"
  /\ UNCHANGED <<ag_trace, iterations, tool_called, input_data, ag_query, observation, store>>

\* line 73, the model asks for codebase_search with one of the payloads:
\* lines 48-55 and 58
CallSearch(payloads) ==
  /\ ag_pc = "loop"
  /\ should_continue(iterations)
  /\ llm_invoked' = TRUE
  /\ \E payload \in payloads :
       /\ input_data' = payload
       /\ ag_query' = universal_input_adapter(payload)
  /\ ag_pc' = "search"
  /\ UNCHANGED <<ag_trace, iterations, tool_called, observation, ag_result, store>>

LLMCallsSearch == CallSearch(Payloads)

\* line 58, the retriever reads the store and the chunks go back to the model
SearchStore ==
  /\ ag_pc = "search"
  /\ tool_called' = TRUE
  /\ observation' = "documents"
  /\ NextIteration
  /\ input_data' = PyNone
  /\ ag_query' = NoQuery
  /\ ag_pc' = "loop"
  /\ UNCHANGED <<ag_trace, llm_invoked, ag_result, store>>

\* line 58, the retriever raises
SearchFails ==
  /\ ag_pc = "search"
  /\ tool_called' = TRUE
  /\ AgentError(<<"n","o"," ","s","u","c","h"," ","t","a","b","l","e",":"," ","c","o","l","l","e","c","t","i","o","n","s">>)
  /\ input_data' = PyNone
  /\ ag_query' = NoQuery
  /\ UNCHANGED <<ag_trace, iterations, llm_invoked, observation, store>>

\* line 73, the model asks for the Jenkins tool and gets its text
LLMCallsJenkins ==
  /\ ag_pc = "loop"
  /\ should_continue(iterations)
  /\ llm_invoked' = TRUE
  /\ tool_called' = TRUE
  /\ observation' = "jenkins"
  /\ NextIteration
  /\ UNCHANGED <<ag_pc, ag_trace, input_data, ag_query, ag_result, store>>

\* line 73, the Jenkins tool raises
JenkinsToolRaises ==
  /\ ag_pc = "loop"
  /\ should_continue(iterations)
  /\ llm_invoked' = TRUE
  /\ tool_called' = TRUE
  /\ AgentError(<<"m","o","d","u","l","e"," ","'","r","e","q","u","e","s","t","s",".","u","t","i","l","s","'"," ","h","a","s"," ","n","o"," ","a","t","t","r","i","b","u","t","e"," ","'","b","6","4","e","n","c","o","d","e","'">>)
  /\ UNCHANGED <<ag_trace, iterations, input_data, ag_query, observation, store>>

\* line 73, the output of the model cannot be parsed: with
\* handle_parsing_errors=True the loop goes on with a corrective observation
LLMMalformed ==
  /\ ag_pc = "loop"
  /\ should_continue(iterations)
  /\ llm_invoked' = TRUE
  /\ observation' = "invalid"
  /\ NextIteration
  /\ UNCHANGED <<ag_pc, ag_trace, tool_called, input_data, ag_query, ag_result, store>>

\* line 73, the call of the model raises
LLMFails ==
  /\ ag_pc = "loop"
  /\ should_continue(iterations)
  /\ llm_invoked' = TRUE
  /\ AgentError(<<"C","o","n","n","e","c","t","i","o","n"," ","e","r","r","o","r",".">>)
  /\ UNCHANGED <<ag_trace, iterations, tool_called, input_data, ag_query, observation, store>>

\* line 73, the loop is stopped
IterationLimit ==
  /\ ag_pc = "loop"
  /\ ~should_continue(iterations)
  /\ ag_result' = Status(StoppedText)
  /\ ag_pc' = "returned"
  /\ UNCHANGED <<ag_trace, ag_loop, store>>

\* the caller has the text
AgentReturn ==
  /\ ag_pc = "returned"
  /\ ag_pc' = "idle"
  /\ ag_trace' = <<>>
  /\ iterations' = 0
  /\ llm_invoked' = FALSE
  /\ tool_called' = FALSE
  /\ input_data' = PyNone
  /\ ag_query' = NoQuery
  /\ observation' = "none"
  /\ ag_result' = NoStatus
  /\ UNCHANGED store

\* the statements of a run_agent call that is under way
AgentStep ==
  \/ LoadAgentEmbeddings
  \/ AgentEmbeddingsFail
  \/ StoreMissing
  \/ StoreFound
  \/ BuildRetriever
  \/ ChromaOpenFails
  \/ LLMFinalAnswer
  \/ LLMCallsSearch
  \/ SearchStore
  \/ SearchFails
  \/ LLMCallsJenkins
  \/ JenkinsToolRaises
  \/ LLMMalformed
  \/ LLMFails
  \/ IterationLimit
  \/ AgentReturn

\* ------------------------------------------------------------------------
\* app.py: the buttons of the page, pressed in the browser sessions of one
\* server process. Every session runs the script in a thread of its own;
\* the directory chroma_store is the server's.
\* ------------------------------------------------------------------------
VARIABLES
  \* st.session_state['index_created'] of each session
  index_created,
  \* the session whose script is inside unzip_and_index, and the one whose
  \* script is inside run_agent ("none" when there is none)
  ix_session,
  ag_session

app_vars == <<index_created, ix_session, ag_session>>

Sessions == {"s1", "s2"}

\* the archives uploaded and the language selected in the page
AppUploads == {"first.zip", "assets.zip"}

AppLanguages == {"Python"}

\* the query the model sends to codebase_search
AppPayloads == {PyStr(<<"a","u","t","h">>)}

\* lines 77-78
AppInit ==
  /\ index_created = [s \in Sessions |-> FALSE]
  /\ ix_session = "none"
  /\ ag_session = "none"

\* the script of the session is inside a handler
Busy(s) == ix_session = s \/ ag_session = s

\* lines 135-143: Index Only with a file uploaded and the API key set
IndexOnly ==
  \E s \in Sessions, path \in AppUploads, lang \in AppLanguages :
    /\ ~Busy(s)
    /\ UnzipAndIndex(path, lang)
    /\ ix_session' = s
    /\ UNCHANGED <<index_created, ag_session>>

\* lines 145-152: the status is back; the flag is set when it starts with
\* "Indexed" and left as it is otherwise (also when an exception came
\* back, lines 153-154)
IndexOnlyDone ==
  /\ ix_session # "none"
  /\ IndexReturn
  /\ index_created' =
       IF ~ix_result.raised /\ str_startswith(ix_result.text, <<"I","n","d","e","x","e","d">>)
       THEN [index_created EXCEPT ![ix_session] = TRUE]
       ELSE index_created
  /\ ix_session' = "none"
  /\ UNCHANGED ag_session

\* lines 127-133: Clear Index
ClearIndex ==
  \E s \in Sessions :
    /\ ~Busy(s)
    /\ IF store.exists
       THEN /\ store' = NoStore
            /\ index_created' = [index_created EXCEPT ![s] = FALSE]
       ELSE UNCHANGED <<store, index_created>>
    /\ UNCHANGED <<ix_session, ag_session>>

\* lines 158-167: Run Full Agent, enabled by the flag (line 125), with a
\* file uploaded, the API key set and a prompt
RunFullAgent ==
  \E s \in Sessions :
    /\ ~Busy(s)
    /\ index_created[s]
    /\ RunAgent
    /\ ag_session' = s
    /\ UNCHANGED <<index_created, ix_session>>

\* lines 167-169: the response is shown
AgentDone ==
  /\ ag_session # "none"
  /\ AgentReturn
  /\ ag_session' = "none"
  /\ UNCHANGED <<index_created, ix_session>>

\* the statements of the unzip_and_index call under way
IndexStep ==
  \/ NoStoreToDelete
  \/ ForceDelete
  \/ ExtractAll
  \/ BadZipFile
  \/ Walk
  \/ Split
  \/ LoadEmbeddings
  \/ WriteStore
  \/ RemoveUnzipped
  \/ HandleError

\* the statements of the run_agent call under way, for one query
AgentRunStep ==
  \/ LoadAgentEmbeddings
  \/ StoreMissing
  \/ StoreFound
  \/ BuildRetriever
  \/ CallSearch(AppPayloads)
  \/ SearchStore
  \/ SearchFails
  \/ LLMFinalAnswer

\* ------------------------------------------------------------------------
\* Properties of the Jenkins tool.
\* ------------------------------------------------------------------------
CIOperations == {"trigger", "status", "logs", "analyze", "create"}

\* the router's keyword groups, in the order the claim gives them
KeywordGroups == <<
  [action |-> "trigger", keywords |-> { <<"t","r","i","g","g","e","r">>, <<"b","u","i","l","d">>, <<"r","u","n">> }],
  [action |-> "status",  keywords |-> { <<"s","t","a","t","u","s">>, <<"c","h","e","c","k">> }],
  [action |-> "logs",    keywords |-> { <<"l","o","g","s">>, <<"o","u","t","p","u","t">> }],
  [action |-> "analyze", keywords |-> { <<"e","r","r","o","r">>, <<"a","n","a","l","y","z","e">>, <<"d","e","b","u","g">> }],
  [action |-> "create",  keywords |-> { <<"c","r","e","a","t","e">> }] >>

GroupsHit(text) ==
  {i \in 1..Len(KeywordGroups) :
     \E k \in KeywordGroups[i].keywords : str_in(k, str_lower(text))}

FirstGroupAction(text) ==
  IF GroupsHit(text) = {} THEN "help" ELSE KeywordGroups[SetMin(GroupsHit(text))].action

\* the endpoint a request goes to, by the end of its URL
EndpointOf(request) ==
  IF str_endswith(request.url, <<"/","b","u","i","l","d">>) THEN "trigger"
  ELSE IF str_endswith(request.url, <<"/","l","a","s","t","B","u","i","l","d","/","a","p","i","/","j","s","o","n">>) THEN "status"
  ELSE IF str_endswith(request.url, <<"/","l","a","s","t","B","u","i","l","d","/","c","o","n","s","o","l","e","T","e","x","t">>) THEN "console"
  ELSE IF str_in(<<"/","c","r","e","a","t","e","I","t","e","m","?","n","a","m","e","=">>, request.url) THEN "create"
  ELSE "other"

EndpointsOfBranch(b) ==
  CASE b = "trigger" -> {"trigger"}
    [] b = "status"  -> {"status"}
    [] b \in {"logs", "analyze"} -> {"console"}
    [] b = "create"  -> {"create"}
    [] OTHER -> {}

HttpStatusReceived == ci_pc = "returned" /\ ci_result.net # <<>> /\ ~http.exc

\* C4: the router takes the action of the first keyword group, in the order
\* trigger/build/run, status/check, logs/output, error/analyze/debug, create,
\* that has a keyword in the lower-cased text, and only that action: at most
\* one request is sent and it goes to that action's endpoint; a text that
\* matches no group gets the help string and no request is sent.
C4_RouterPrecedence ==
  /\ ci_pc = "routed" => branch = FirstGroupAction(operation_arg)
  /\ ci_pc = "returned" =>
       /\ Len(ci_result.net) <= 1
       /\ \A i \in 1..Len(ci_result.net) :
            EndpointOf(ci_result.net[i]) \in EndpointsOfBranch(branch)
       /\ branch = "help" =>
            /\ ~ci_result.raised
            /\ str_startswith(ci_result.text, <<"A","v","a","i","l","a","b","l","e"," ","o","p","e","r","a","t","i","o","n","s"," ","f","o","r"," ","j","o","b"," ","'">>)
            /\ ci_result.net = <<>>

\* a text with both "status" and "logs" was routed, to the status action
C4_Witness ==
  /\ ci_pc = "routed"
  /\ str_in(<<"s","t","a","t","u","s">>, operation)
  /\ str_in(<<"l","o","g","s">>, operation)
  /\ branch = "status"

CredentialAbsent(v) == v = {} \/ v = {<<>>}

\* C5: with the username or the token absent, every CI operation returns a
\* "not configured" message and sends no request.
C5_NotConfigured ==
  (/\ ci_pc = "returned"
   /\ branch \in CIOperations
   /\ CredentialAbsent(JENKINS_USERNAME) \/ CredentialAbsent(JENKINS_API_TOKEN))
  => /\ ~ci_result.raised
     /\ str_in(<<"n","o","t"," ","c","o","n","f","i","g","u","r","e","d">>, ci_result.text)
     /\ ci_result.net = <<>>

\* analyze has returned with a username but no token
C5_Witness ==
  /\ ci_pc = "returned"
  /\ branch = "analyze"
  /\ ~CredentialAbsent(JENKINS_USERNAME)
  /\ CredentialAbsent(JENKINS_API_TOKEN)
  /\ str_in(<<"n","o","t"," ","c","o","n","f","i","g","u","r","e","d">>, ci_result.text)

IsSuccessText(b, text) ==
  CASE b \in {"trigger", "create"} -> str_endswith(text, <<"s","u","c","c","e","s","s","f","u","l","l","y",".">>)
    [] b = "status" -> str_startswith(text, <<"J","o","b"," ","'">>) /\ str_in(<<"'"," ","b","u","i","l","d"," ","#">>, text)
    [] b = "logs" -> str_startswith(text, <<"B","u","i","l","d"," ","l","o","g","s"," ","f","o","r"," ","'">>)
    [] OTHER -> FALSE

IsPermissionDeniedText(text) == str_startswith(text, <<"P","e","r","m","i","s","s","i","o","n"," ","d","e","n","i","e","d">>)

IsNotFoundText(text) == str_in(<<" ","n","o","t"," ","f","o","u","n","d">>, text) /\ ~str_startswith(text, <<"B","u","i","l","d"," ","l","o","g","s"," ","f","o","r"," ","'">>)

IsInvalidConfigurationText(text) == str_startswith(text, <<"I","n","v","a","l","i","d"," ","j","o","b"," ","c","o","n","f","i","g","u","r","a","t","i","o","n">>)

IsErrorText(text) == str_startswith(text, <<"E","r","r","o","r"," ">>)

IsGenericFailureText(text, code) ==
  /\ str_startswith(text, <<"F","a","i","l","e","d"," ","t","o"," ">>)
  /\ str_endswith(text, <<":"," ">> \o str_int(code))

\* C6 as stated: for create, trigger, status and logs alike, 200 or 201 gives
\* the success text, 403 the permission-denied text, 404 the not-found text
\* and any other status a generic failure text with the status code.
C6_UniformStatusTable ==
  (HttpStatusReceived /\ branch \in {"create", "trigger", "status", "logs"})
  => /\ ~ci_result.raised
     /\ http.status_code \in {200, 201} => IsSuccessText(branch, ci_result.text)
     /\ http.status_code = 403 => IsPermissionDeniedText(ci_result.text)
     /\ http.status_code = 404 => IsNotFoundText(ci_result.text)
     /\ http.status_code \notin {200, 201, 403, 404} =>
          IsGenericFailureText(ci_result.text, http.status_code)

\* C6 as amended: each call has its own table.
\*   trigger: 201 success, 403 permission denied, 404 not found;
\*   create:  200 success, 400 invalid configuration;
\*   status:  200 the build's number and result (an error text when the body
\*            does not parse), 404 not found;
\*   logs:    200 the log text, 404 not found;
\* and every other status of a call gives its generic failure text with the
\* status code.
C6_StatusTablePerCall ==
  (HttpStatusReceived /\ branch \in {"create", "trigger", "status", "logs"})
  => LET code == http.status_code
         text == ci_result.text
     IN /\ ~ci_result.raised
        /\ branch = "trigger" =>
             /\ code = 201 => IsSuccessText(branch, text)
             /\ code = 403 => IsPermissionDeniedText(text)
             /\ code = 404 => IsNotFoundText(text)
             /\ code \notin {201, 403, 404} => IsGenericFailureText(text, code)
        /\ branch = "create" =>
             /\ code = 200 => IsSuccessText(branch, text)
             /\ code = 400 => IsInvalidConfigurationText(text)
             /\ code \notin {200, 400} => IsGenericFailureText(text, code)
        /\ branch = "status" =>
             /\ (code = 200 /\ http.json_ok) => IsSuccessText(branch, text)
             /\ (code = 200 /\ ~http.json_ok) => IsErrorText(text)
             /\ code = 404 => IsNotFoundText(text)
             /\ code \notin {200, 404} => IsGenericFailureText(text, code)
        /\ branch = "logs" =>
             /\ code = 200 => IsSuccessText(branch, text)
             /\ code = 404 => IsNotFoundText(text)
             /\ code \notin {200, 404} => IsGenericFailureText(text, code)

\* a trigger request was answered with 200 and the generic failure text came back
C6_Witness ==
  /\ HttpStatusReceived
  /\ branch = "trigger"
  /\ http.status_code = 200
  /\ IsGenericFailureText(ci_result.text, 200)

\* C7: jenkins_operations never raises: whatever the text and whatever the
\* server does, the caller gets a text.
C7_NeverRaises == ci_pc = "returned" => ~ci_result.raised

LogsHeader == <<"B","u","i","l","d"," ","l","o","g","s"," ","f","o","r"," ","'">> \o job_name \o <<"'",":","\n">>

LogFetched == HttpStatusReceived /\ http.status_code = 200 /\ ~ci_result.raised

\* C8: the logs operation returns a log of at most 2000 characters unchanged
\* and without the marker, and of a longer log exactly its first 2000
\* characters followed by the truncation marker.
C8_LogTruncation ==
  (LogFetched /\ branch = "logs")
  => LET log == http.text
         text == ci_result.text
         part == SubSeq(text, Len(LogsHeader) + 1, Len(text))
     IN /\ str_startswith(text, LogsHeader)
        /\ Len(log) <= 2000 => part = log
        /\ Len(log) > 2000 =>
             /\ Len(part) = 2000 + Len(<<"\n",".",".","."," ","(","t","r","u","n","c","a","t","e","d",")">>)
             /\ \A i \in 1..2000 : part[i] = log[i]
             /\ SubSeq(part, 2001, Len(part)) = <<"\n",".",".","."," ","(","t","r","u","n","c","a","t","e","d",")">>

\* the logs operation has returned the longest of the logs, cut
C8_Witness ==
  /\ LogFetched
  /\ branch = "logs"
  /\ Len(http.text) = BigLogLen
  /\ Len(ci_result.text) = Len(LogsHeader) + 2000 + Len(<<"\n",".",".","."," ","(","t","r","u","n","c","a","t","e","d",")">>)

\* the categories of the fixed table with a pattern in the log, whatever its case
CategoriesOf(log) ==
  {error_patterns[i].error_type : i \in
     {k \in 1..Len(error_patterns) :
        \E j \in 1..Len(error_patterns[k].patterns) :
          str_in(str_lower(error_patterns[k].patterns[j]), str_lower(log))}}

\* the "Found issues:" line of an analysis, <<>> when there is none
FoundIssuesLine(text) ==
  LET header == <<"E","r","r","o","r"," ","A","n","a","l","y","s","i","s"," ","f","o","r"," ","'">> \o job_name \o <<"'",":","\n","F","o","u","n","d"," ","i","s","s","u","e","s",":"," ">>
      rest == SubSeq(text, Len(header) + 1, Len(text))
      ends == {i \in 1..Len(rest) : rest[i] = "\n"}
  IN IF ~str_startswith(text, header) THEN <<>>
     ELSE IF ends = {} THEN rest ELSE SubSeq(rest, 1, SetMin(ends) - 1)

Occurrences(p, s) == Cardinality({k \in 0..(Len(s) - Len(p)) : occurs_at(p, s, k)})

\* C9: the analysis of a log lists a category exactly once when one of its
\* patterns occurs in the log (case-insensitively) and not at all otherwise;
\* a log with no pattern gets "No common errors detected".
C9_CategoriesReported ==
  (LogFetched /\ branch = "analyze")
  => /\ \A i \in 1..Len(error_patterns) :
          Occurrences(error_patterns[i].error_type, FoundIssuesLine(ci_result.text))
            = IF error_patterns[i].error_type \in CategoriesOf(http.text) THEN 1 ELSE 0
     /\ CategoriesOf(http.text) = {} =>
          str_startswith(ci_result.text, <<"N","o"," ","c","o","m","m","o","n"," ","e","r","r","o","r","s"," ","d","e","t","e","c","t","e","d">>)

\* C10: the analysis contains the whole log the server returned.
C10_FullLogInAnalysis ==
  (LogFetched /\ branch = "analyze") => str_in(http.text, ci_result.text)


\* the analyze branch sent its request and returned a text
AnalyzeReturned ==
  ci_pc = "returned" /\ branch = "analyze" /\ ~ci_result.raised /\ ci_result.net # <<>>

\* what get_build_logs made of the answer
FetchMessage == get_build_logs(JENKINS_USERNAME, JENKINS_API_TOKEN, job_name, {}, http).text

\* C20: analyze says "No common errors detected" only of a log it received
\* with status 200 and in which no pattern occurs; when the fetch ends in
\* another status or in an exception, the result is the message of that
\* failure and not a verdict.
C20_VerdictOnlyForFetchedLog ==
  AnalyzeReturned =>
    /\ str_startswith(ci_result.text, <<"N","o"," ","c","o","m","m","o","n"," ","e","r","r","o","r","s"," ","d","e","t","e","c","t","e","d">>) =>
         (~http.exc /\ http.status_code = 200 /\ CategoriesOf(http.text) = {})
    /\ (http.exc \/ http.status_code # 200) => ci_result.text = FetchMessage

\* the fetch was answered 404 and the analysis says no error was found
C20_VerdictOnMissingLog ==
  /\ AnalyzeReturned
  /\ ~http.exc
  /\ http.status_code = 404
  /\ ci_result.text = <<"N","o"," ","c","o","m","m","o","n"," ","e","r","r","o","r","s"," ","d","e","t","e","c","t","e","d"," ","i","n"," ","'","r","a","g","-","a","g","e","n","t","-","j","o","b","'"," ","b","u","i","l","d"," ","l","o","g","s",".","\n","\n","L","o","g","s",":","\n">>
\* ------------------------------------------------------------------------
\* Properties of the indexer.
\* ------------------------------------------------------------------------
IndexedReturned ==
  /\ ix_pc = "returned"
  /\ ~ix_result.raised
  /\ str_startswith(ix_result.text, <<"I","n","d","e","x","e","d"," ">>)

\* the chunks of the files of an archive that pass the filter of a language
ArchiveChunks(path, lang) ==
  UNION {{[page_content |-> split_text(f.content)[j],
           source |-> <<"u","n","z","i","p","p","e","d","/">> \o f.name,
           chunk_id |-> j - 1,
           language |-> lang] : j \in 1..Len(split_text(f.content))} :
         f \in {g \in ArchiveFiles(path) :
                  /\ \E ext \in valid_exts(lang) : str_endswith(g.name, ext)
                  /\ str_strip(g.content) # <<>>}}

\* C1: when a successful run over one archive is followed by a successful
\* run over a different archive, the store holds one generation (one write
\* since the directory was created, nothing torn), its chunks are the
\* chunks the second run produced, all of them from the second archive, and
\* none of them was in the store before.
C1_FullReplace ==
  (/\ IndexedReturned
   /\ prev_run.indexed
   /\ prev_run.zip_path # zip_path)
  => /\ store.exists
     /\ store.writes = 1
     /\ ~store.torn
     /\ ~store.damaged
     /\ store.docs = documents
     /\ store.docs # {}
     /\ store.docs \subseteq ArchiveChunks(zip_path, language)
     /\ ix_result.text = IndexedStatus(Cardinality(docs), Cardinality(store.docs))

\* second.zip was indexed right after first.zip, over a store that had chunks
C1_Witness ==
  /\ IndexedReturned
  /\ prev_run.indexed
  /\ prev_run.zip_path = "first.zip"
  /\ zip_path = "second.zip"
  /\ store_before.docs # {}
  /\ store_before.docs \cap store.docs = {}
  /\ store.docs # {}

\* no file of the archive has an allowed extension and something in it
OnlyIneligibleFiles(path, lang) ==
  \A f \in ArchiveFiles(path) :
    \/ \A ext \in valid_exts(lang) : ~str_endswith(f.name, ext)
    \/ str_strip(f.content) = <<>>

\* C2: a run that returns the "no files" status for an archive with only
\* disallowed or empty files, under a supported language filter, leaves the
\* store as it was before the call.
C2_NoFilesLeavesStore ==
  (/\ ix_pc = "returned"
   /\ language \in SupportedLanguages
   /\ OnlyIneligibleFiles(zip_path, language)
   /\ ix_result = Status(NoFilesStatus))
  => store = store_before

IndexFailed ==
  /\ ix_pc = "returned"
  /\ ix_result.raised \/ str_startswith(ix_result.text, <<"E","r","r","o","r"," ","d","u","r","i","n","g"," ","i","n","d","e","x","i","n","g",":"," ">>)

\* C3: when a run fails, either the store is the complete new generation
\* or there is no new store at the store location: the location is empty or
\* holds the store that was there before the call, untouched.
C3_NoPartialStore ==
  IndexFailed
  => \/ /\ store.exists
        /\ store.writes = 1
        /\ ~store.torn
        /\ ~store.damaged
        /\ documents # {}
        /\ store.docs = documents
     \/ ~store.exists
     \/ store = store_before

\* the attempt at which a sequence of rmtree outcomes first does something
\* other than fail with PermissionError (one past its end when it never does)
FirstOtherOutcome(o) ==
  SetMin({i \in 1..Len(o) : o[i] # "PermissionError"} \cup {Len(o) + 1})

DeletionGaveUpText == <<"F","a","i","l","e","d"," ","t","o"," ","d","e","l","e","t","e"," ","c","h","r","o","m","a","_","s","t","o","r","e"," ","a","f","t","e","r"," ","3"," ","r","e","t","r","i","e","s",".">>

StatusReturned == ix_pc = "returned" /\ ~ix_result.raised

\* C12: when unzip_and_index has returned a status, the success status, the
\* "no files" status or an error status, there is no directory "unzipped".
C12_WorkingDirRemoved ==
  StatusReturned
  => /\ ~unzipped.exists
     /\ \/ str_startswith(ix_result.text, <<"I","n","d","e","x","e","d"," ">>)
        \/ ix_result.text = <<"N","o"," ","s","u","p","p","o","r","t","e","d"," ","c","o","d","e"," ","f","i","l","e","s"," ","f","o","u","n","d"," ","f","o","r"," ","i","n","d","e","x","i","n","g",".">>
        \/ str_startswith(ix_result.text, <<"E","r","r","o","r"," ","d","u","r","i","n","g"," ","i","n","d","e","x","i","n","g",":"," ">>)

\* a run whose store write failed, with the archive extracted, has returned
\* its error status
C12_Witness ==
  /\ StatusReturned
  /\ ix_error = <<"d","a","t","a","b","a","s","e"," ","o","r"," ","d","i","s","k"," ","i","s"," ","f","u","l","l">>
  /\ str_startswith(ix_result.text, <<"E","r","r","o","r"," ","d","u","r","i","n","g"," ","i","n","d","e","x","i","n","g",":"," ">>)
  /\ documents # {}
  /\ ~unzipped.exists

\* ------------------------------------------------------------------------
\* Chunking.
\* ------------------------------------------------------------------------
\* from_documents has written the chunks of the files read
Written == ix_pc = "cleanup" /\ docs # {} /\ store.exists

\* the chunks in the store that come from a file
ChunksOf(source) == {d \in store.docs : d.source = source}

ChunkAt(source, j) == CHOOSE d \in ChunksOf(source) : d.chunk_id = j

\* ceil((L - overlap) / (size - overlap)) above the chunk size, 1 up to it
ExpectedChunks(L) ==
  IF L <= ChunkSize THEN 1
  ELSE ((L - ChunkOverlap) + (ChunkSize - ChunkOverlap) - 1) \div (ChunkSize - ChunkOverlap)

NoSeparatorIn(content) == \A i \in 1..Len(content) : content[i] \notin WHITESPACE

\* the chunks of the file are numbered 0..n-1
NumberedInOrder(source) ==
  {d.chunk_id : d \in ChunksOf(source)} = 0..(Cardinality(ChunksOf(source)) - 1)

\* C13 as the specification states it: every file read is written as 1
\* chunk when it has at most 1000 characters and as ceil((L-100)/900) chunks
\* when it has more, numbered 0..n-1.
C13_ChunkCountEveryFile ==
  Written =>
    \A f \in docs :
      /\ Cardinality(ChunksOf(f.file_path)) = ExpectedChunks(Len(f.content))
      /\ NumberedInOrder(f.file_path)

\* C13, amended: every file read is written as n >= 1 chunks of at most
\* 1000 characters numbered 0..n-1; n is 1 when the file has at most 1000
\* characters, and n is ceil((L-100)/900) when it has more and holds no
\* white space (the splitter cuts at "\n\n", "\n" and " " where there are
\* some, and drops the white space at both ends of a chunk).
C13_ChunkCount ==
  Written =>
    \A f \in docs :
      LET n == Cardinality(ChunksOf(f.file_path))
      IN /\ n >= 1
         /\ NumberedInOrder(f.file_path)
         /\ \A d \in ChunksOf(f.file_path) : Len(d.page_content) \in 1..ChunkSize
         /\ Len(f.content) <= ChunkSize => n = 1
         /\ NoSeparatorIn(f.content) => n = ExpectedChunks(Len(f.content))

\* a file of 1001 characters with no white space is in the store as chunks
\* 0 and 1, and one of 1000 characters as chunk 0
C13_Witness ==
  /\ Written
  /\ \E f \in docs :
       /\ Len(f.content) \in {ChunkSize, ChunkSize + 1}
       /\ NoSeparatorIn(f.content)
       /\ Cardinality(ChunksOf(f.file_path)) = Len(f.content) - ChunkSize + 1

\* the longest text of at most ChunkOverlap characters that ends a and
\* begins b
Overlap(a, b) ==
  SetMax({k \in 0..ChunkOverlap :
            /\ k <= Len(a)
            /\ k <= Len(b)
            /\ SubSeq(a, Len(a) - k + 1, Len(a)) = SubSeq(b, 1, k)})

\* chunks 0..j of the file joined, the overlap of each with the one before
\* it left out
RECURSIVE Reassembled(_, _)
Reassembled(source, j) ==
  IF j = 0 THEN ChunkAt(source, 0).page_content
  ELSE LET b == ChunkAt(source, j).page_content
       IN Reassembled(source, j - 1)
          \o SubSeq(b, Overlap(ChunkAt(source, j - 1).page_content, b) + 1, Len(b))

UniqueInStore ==
  \A d1, d2 \in store.docs :
    d1.source = d2.source /\ d1.chunk_id = d2.chunk_id => d1 = d2

\* C14 as the specification states it: in the store, source and chunk_id
\* identify a chunk, and the chunks of a file joined in order without the
\* overlaps are the content of the file.
C14_RoundTripEveryFile ==
  Written =>
    /\ UniqueInStore
    /\ \A f \in docs :
         /\ NumberedInOrder(f.file_path)
         /\ Reassembled(f.file_path, Cardinality(ChunksOf(f.file_path)) - 1) = f.content

\* C14, amended: in the store, source and chunk_id identify a chunk; every
\* chunk is a piece of the content of its file with no white space at
\* either end; and the chunks of a file joined in order without the
\* overlaps are the content of the file when the content holds no white
\* space.
C14_RoundTrip ==
  Written =>
    /\ UniqueInStore
    /\ \A f \in docs :
         /\ NumberedInOrder(f.file_path)
         /\ \A d \in ChunksOf(f.file_path) :
              /\ str_in(d.page_content, f.content)
              /\ str_strip(d.page_content) = d.page_content
         /\ NoSeparatorIn(f.content) =>
              Reassembled(f.file_path, Cardinality(ChunksOf(f.file_path)) - 1) = f.content

\* two files of 1001 characters with no white space are in the store, two
\* chunks each, the second chunk beginning with the last 100 characters of
\* the first
C14_Witness ==
  /\ Written
  /\ Cardinality(docs) = 2
  /\ \A f \in docs :
       /\ NoSeparatorIn(f.content)
       /\ Cardinality(ChunksOf(f.file_path)) = 2
       /\ Overlap(ChunkAt(f.file_path, 0).page_content,
                  ChunkAt(f.file_path, 1).page_content) = ChunkOverlap

\* ------------------------------------------------------------------------
\* The agent.
\* ------------------------------------------------------------------------
InTrace(e) == \E i \in 1..Len(ag_trace) : ag_trace[i] = e

Before(e1, e2) ==
  \E i, j \in 1..Len(ag_trace) : i < j /\ ag_trace[i] = e1 /\ ag_trace[j] = e2

AgentRunning == ag_pc \notin {"idle", "returned"}

AgentReturned == ag_pc = "returned" /\ ~ag_result.raised

\* C15: every run of the agent ends, whatever the model puts out: with a
\* final answer, or after at most MaxIterations turns of tool calls and
\* unparsable outputs, and run_agent then returns a text.
C15_Terminates ==
  /\ [](iterations <= MaxIterations)
  /\ [](ag_pc = "returned" => ~ag_result.raised)
  /\ [](ag_pc = "loop" /\ iterations = MaxIterations => ENABLED IterationLimit)
  /\ (AgentRunning ~> AgentReturned)

\* the loop was stopped at the limit and run_agent returned the text for it
C15_Witness ==
  /\ AgentReturned
  /\ iterations = MaxIterations
  /\ ag_result.text = StoppedText

\* C17 as the specification states it: with no store, run_agent returns
\* the not-indexed message and has made no retriever, has not invoked the
\* model and has called no tool; a retriever is made only after the store was looked for.
C17_NotIndexedMessage ==
  /\ (AgentReturned /\ ~store.exists) =>
       /\ ag_result.text = NotIndexedText
       /\ ~InTrace("retriever")
       /\ ~llm_invoked
       /\ ~tool_called
  /\ InTrace("retriever") => Before("exists", "retriever")

\* C17, amended: with no store, run_agent has made no retriever, has not
\* invoked the model and has called no tool when it returns; it returns
\* the not-indexed message when the embedding model was loaded, and the
\* text of the load error when it was not (the model is loaded before the
\* store is looked for); a retriever is made only after the store was looked for.
C17_NoRetrieverWithoutStore ==
  /\ (AgentReturned /\ ~store.exists) =>
       /\ ~InTrace("retriever")
       /\ ~llm_invoked
       /\ ~tool_called
       /\ IF InTrace("embedding_fn")
          THEN ag_result.text = NotIndexedText /\ InTrace("exists")
          ELSE /\ str_startswith(ag_result.text, <<"E","r","r","o","r"," ","r","u","n","n","i","n","g"," ","a","g","e","n","t",":"," ">>)
               /\ ~InTrace("exists")
  /\ InTrace("retriever") => Before("exists", "retriever")

C17_Witness ==
  /\ AgentReturned
  /\ ~store.exists
  /\ ag_trace = <<"embedding_fn", "exists">>
  /\ ag_result.text = NotIndexedText

\* the value under a key, when the key is there with a value that counts
\* as true
Present(p, key) ==
  \E i \in 1..Len(p.items) : p.items[i].key = key /\ truthy(p.items[i].value)

ValueOf(p, key) == p.items[SetMin({i \in 1..Len(p.items) : p.items[i].key = key})].value

\* the value the precedence of the specification picks from a mapping
\* that has an item
PickedValue(p) ==
  IF Present(p, <<"q","u","e","r","y">>) THEN ValueOf(p, <<"q","u","e","r","y">>)
  ELSE IF Present(p, <<"i","n","p","u","t">>) THEN ValueOf(p, <<"i","n","p","u","t">>)
  ELSE IF Present(p, <<"p","a","g","e","_","c","o","n","t","e","n","t">>) THEN ValueOf(p, <<"p","a","g","e","_","c","o","n","t","e","n","t">>)
  ELSE p.items[1].value

AdapterCalled == ag_pc = "search"

\* C18 as the specification states it: the adapter makes of every payload
\* one query string: of a mapping the value of the first of query, input,
\* page_content that is there and not empty, or else the first value of the
\* mapping; of another payload its string form.
C18_SingleQueryString ==
  AdapterCalled =>
    /\ ag_query.query.type = "str"
    /\ input_data.type = "dict" =>
         /\ input_data.items # <<>>
         /\ ag_query.query = PickedValue(input_data)
    /\ input_data.type # "dict" => ag_query.query = PyStr(py_str(input_data))

\* C18, amended: of a mapping with an item the adapter gives the value of
\* the first of query, input, page_content that is there with a value that
\* counts as true, or else the first value of the mapping, as it is (a
\* string when the value is one); of an empty mapping and of a payload
\* that is not a mapping it gives the string form.
C18_AdapterPrecedence ==
  AdapterCalled =>
    /\ (input_data.type = "dict" /\ input_data.items # <<>>) =>
         /\ ag_query.query = PickedValue(input_data)
         /\ PickedValue(input_data).type = "str" => ag_query.query.type = "str"
    /\ (input_data.type = "dict" /\ input_data.items = <<>>) =>
         ag_query.query = PyStr(<<"{","}">>)
    /\ input_data.type # "dict" =>
         /\ ag_query.query.type = "str"
         /\ ag_query.query.text = input_data.text

\* a mapping with 'input' before 'query', both with a text: the query is
\* the text under 'query'
C18_Witness ==
  /\ AdapterCalled
  /\ input_data.type = "dict"
  /\ Len(input_data.items) = 2
  /\ input_data.items[1].key = <<"i","n","p","u","t">>
  /\ input_data.items[2].key = <<"q","u","e","r","y">>
  /\ input_data.items[2].value = PyStr(<<"a","u","t","h">>)
  /\ truthy(input_data.items[1].value)
  /\ ag_query.query = PyStr(<<"a","u","t","h">>)

\* ------------------------------------------------------------------------
\* The page.
\* ------------------------------------------------------------------------
\* an unzip_and_index call is between its delete step and the end of its
\* write
Rebuilding == ix_pc \in {"extract", "walk", "split", "embed", "write"}

\* the retriever of a run_agent call is at its query
QueryReading == ag_pc = "search"

\* C16: no query of the agent loop reads the store while an unzip_and_index
\* call is between its delete step and the end of its write.
C16_SerializedStoreAccess == ~(QueryReading /\ Rebuilding)

\* no handler is running in any session
Quiet == ix_session = "none" /\ ag_session = "none"

\* C19: between the actions of the page, a session whose index_created
\* flag is true has a store directory on disk.
C19_FlagImpliesStore ==
  Quiet => \A s \in Sessions : index_created[s] => store.exists

\* the flag of a session is true, the last status it got is the no-files
\* status of the run that deleted the store, and there is no store
C19_StaleFlagAfterNoFiles ==
  /\ ix_pc = "returned"
  /\ ag_session = "none"
  /\ ix_result.text = NoFilesStatus
  /\ index_created[ix_session]
  /\ ~index_created[CHOOSE s \in Sessions : s # ix_session]
  /\ ~store.exists

\* ------------------------------------------------------------------------
\* Specifications.
\* ------------------------------------------------------------------------
vars == <<ci_vars, ix_vars, ag_vars, app_vars>>

Init == CIInit /\ IndexInit /\ AgentInit /\ AppInit

CINext ==
  \/ Invoke /\ UNCHANGED <<ix_vars, ag_vars, app_vars>>
  \/ CallBranch /\ UNCHANGED <<ix_vars, ag_vars, app_vars>>
  \/ TriggerJenkinsJob /\ UNCHANGED <<ix_vars, ag_vars, app_vars>>
  \/ GetJobStatus /\ UNCHANGED <<ix_vars, ag_vars, app_vars>>
  \/ GetBuildLogs /\ UNCHANGED <<ix_vars, ag_vars, app_vars>>
  \/ AnalyzeBuildErrors /\ UNCHANGED <<ix_vars, ag_vars, app_vars>>
  \/ CreateJenkinsJob /\ UNCHANGED <<ix_vars, ag_vars, app_vars>>
  \/ Help /\ UNCHANGED <<ix_vars, ag_vars, app_vars>>
  \/ CIReturn /\ UNCHANGED <<ix_vars, ag_vars, app_vars>>

\* the Jenkins tool, called over and over
CISpec == Init /\ [][CINext]_vars

IndexNext ==
  \/ Index /\ UNCHANGED <<ci_vars, ag_vars, app_vars>>
  \/ NoStoreToDelete /\ UNCHANGED <<ci_vars, ag_vars, app_vars>>
  \/ ForceDelete /\ UNCHANGED <<ci_vars, ag_vars, app_vars>>
  \/ ExtractAll /\ UNCHANGED <<ci_vars, ag_vars, app_vars>>
  \/ BadZipFile /\ UNCHANGED <<ci_vars, ag_vars, app_vars>>
  \/ ExtractFails /\ UNCHANGED <<ci_vars, ag_vars, app_vars>>
  \/ Walk /\ UNCHANGED <<ci_vars, ag_vars, app_vars>>
  \/ Split /\ UNCHANGED <<ci_vars, ag_vars, app_vars>>
  \/ LoadEmbeddings /\ UNCHANGED <<ci_vars, ag_vars, app_vars>>
  \/ EmbeddingsFail /\ UNCHANGED <<ci_vars, ag_vars, app_vars>>
  \/ WriteStore /\ UNCHANGED <<ci_vars, ag_vars, app_vars>>
  \/ ChromaClientFails /\ UNCHANGED <<ci_vars, ag_vars, app_vars>>
  \/ WriteFails /\ UNCHANGED <<ci_vars, ag_vars, app_vars>>
  \/ PersistFails /\ UNCHANGED <<ci_vars, ag_vars, app_vars>>
  \/ RemoveUnzipped /\ UNCHANGED <<ci_vars, ag_vars, app_vars>>
  \/ RemoveUnzippedMissing /\ UNCHANGED <<ci_vars, ag_vars, app_vars>>
  \/ RemoveUnzippedFails /\ UNCHANGED <<ci_vars, ag_vars, app_vars>>
  \/ HandleError /\ UNCHANGED <<ci_vars, ag_vars, app_vars>>
  \/ HandlerFails /\ UNCHANGED <<ci_vars, ag_vars, app_vars>>
  \/ IndexReturn /\ UNCHANGED <<ci_vars, ag_vars, app_vars>>

\* the process of one configuration: credentials set, requests as installed
ConfiguredInit ==
  /\ Init
  /\ JENKINS_USERNAME # {}
  /\ JENKINS_USERNAME # {<<>>}
  /\ JENKINS_API_TOKEN # {}
  /\ b64encode_defined
  /\ hash_order = CategoryOrder
  /\ job_name = <<"r","a","g","-","a","g","e","n","t","-","j","o","b">>

\* the indexer, called over and over
IndexSpec == ConfiguredInit /\ [][IndexNext]_vars


SplitNext ==
  \/ Walk /\ UNCHANGED <<ci_vars, ag_vars, app_vars>>
  \/ Split /\ UNCHANGED <<ci_vars, ag_vars, app_vars>>
  \/ LoadEmbeddings /\ UNCHANGED <<ci_vars, ag_vars, app_vars>>
  \/ WriteStore /\ UNCHANGED <<ci_vars, ag_vars, app_vars>>

\* one indexing run from the walk to the write, over files around the
\* chunk size
ConfiguredSplitInit ==
  /\ CIInit
  /\ SplitInit
  /\ AgentInit
  /\ AppInit
  /\ JENKINS_USERNAME # {}
  /\ JENKINS_USERNAME # {<<>>}
  /\ JENKINS_API_TOKEN # {}
  /\ b64encode_defined
  /\ hash_order = CategoryOrder
  /\ job_name = <<"r","a","g","-","a","g","e","n","t","-","j","o","b">>

SplitSpec == ConfiguredSplitInit /\ [][SplitNext]_vars

ix_rest == <<unzipped, ix_pc, zip_path, language, docs, documents, ix_error,
            ix_result, store_before, fd, prev_run>>

AgentNext ==
  \/ RunAgent /\ UNCHANGED <<ci_vars, ix_rest, app_vars>>
  \/ AgentStep /\ UNCHANGED <<ci_vars, ix_rest, app_vars>>

\* the process with no store on disk, or with the store of an earlier
\* indexing run
ConfiguredAgentInit ==
  /\ CIInit
  /\ AgentInit
  /\ AppInit
  /\ JENKINS_USERNAME # {}
  /\ JENKINS_USERNAME # {<<>>}
  /\ JENKINS_API_TOKEN # {}
  /\ b64encode_defined
  /\ hash_order = CategoryOrder
  /\ job_name = <<"r","a","g","-","a","g","e","n","t","-","j","o","b">>
  /\ store \in {NoStore, IndexedStore}
  /\ unzipped = NoDir
  /\ ix_pc = "idle"
  /\ zip_path = ""
  /\ language = ""
  /\ docs = {}
  /\ documents = {}
  /\ ix_error = <<>>
  /\ ix_result = NoStatus
  /\ store_before = NoStore
  /\ fd = NoDelete
  /\ prev_run = [zip_path |-> "", indexed |-> FALSE]

\* run_agent, called over and over
AgentSpec == ConfiguredAgentInit /\ [][AgentNext]_vars

\* a statement reached is executed: every call of a library, of the model
\* or of a tool returns or raises
AgentFairSpec == AgentSpec /\ WF_vars(AgentStep /\ UNCHANGED <<ci_vars, ix_rest, app_vars>>)

AppNext ==
  \/ IndexOnly /\ UNCHANGED <<ci_vars, ag_vars>>
  \/ IndexStep /\ UNCHANGED <<ci_vars, ag_vars, app_vars>>
  \/ IndexOnlyDone /\ UNCHANGED <<ci_vars, ag_vars>>
  \/ ClearIndex /\ UNCHANGED <<ci_vars, ix_rest, ag_vars>>
  \/ RunFullAgent /\ UNCHANGED <<ci_vars, ix_rest>>
  \/ AgentRunStep /\ UNCHANGED <<ci_vars, ix_rest, app_vars>>
  \/ AgentDone /\ UNCHANGED <<ci_vars, ix_rest>>

\* the page in two browser sessions of one server
AppSpec == ConfiguredInit /\ [][AppNext]_vars

====
